---- MODULE Spec2Model ----
(***************************************************************************)
(* TaskFlick: the client-side generation gateway (aiTransformer), its      *)
(* response cache, the backend locator it calls and the local fallback     *)
(* generators.                                                             *)
(*                                                                         *)
(* Text model.  A JavaScript string is a sequence of fragments (TLA+       *)
(* strings) whose concatenation is the string.  Strings the code inspects  *)
(* character by character (task titles, categories) are split into         *)
(* one-character fragments; the fixed sentences of the templates are split *)
(* into words.  String.includes is containment of a contiguous run of      *)
(* fragments.                                                              *)
(***************************************************************************)
EXTENDS Integers, Sequences, FiniteSets, TLC

\* ------------------------------------------------------------------ text

UpperCaseLetters ==
    << "A", "B", "C", "D", "E", "F", "G", "H", "I", "J", "K", "L", "M",
       "N", "O", "P", "Q", "R", "S", "T", "U", "V", "W", "X", "Y", "Z" >>

LowerCaseLetters ==
    << "a", "b", "c", "d", "e", "f", "g", "h", "i", "j", "k", "l", "m",
       "n", "o", "p", "q", "r", "s", "t", "u", "v", "w", "x", "y", "z" >>

\* String.prototype.toUpperCase on a one-character string
toUpperCase(c) ==
    IF \E i \in 1..26 : LowerCaseLetters[i] = c
    THEN UpperCaseLetters[CHOOSE i \in 1..26 : LowerCaseLetters[i] = c]
    ELSE c

\* String.prototype.toLowerCase on a string of one-character fragments
toLowerCase(s) ==
    [ i \in 1..Len(s) |->
        IF \E j \in 1..26 : UpperCaseLetters[j] = s[i]
        THEN LowerCaseLetters[CHOOSE j \in 1..26 : UpperCaseLetters[j] = s[i]]
        ELSE s[i] ]

\* String.prototype.includes
includes(s, sub) ==
    \E i \in 0..(Len(s) - Len(sub)) :
        \A j \in 1..Len(sub) : s[i + j] = sub[j]

\* capitalize that leaves the first letter as it is
capitalizeUnchanged(str) == str

\* capitalize: the first letter in upper case, '' for an empty string
capitalize(str) ==
    IF str = << >> THEN << >>
    ELSE << toUpperCase(Head(str)) >> \o Tail(str)

\* Math.random() gives r / RandomDenominator for some r in
\* 0..RandomDenominator-1, a value in [0, 1)
RandomDenominator == 100

\* the values of r the model draws: the least and the greatest
RandomValues == {0, RandomDenominator - 1}

\* Math.floor(Math.random() * n)
randomIndex(r, n) == (r * n) \div RandomDenominator

\* ------------------------------------------------- local fallback generators

categoryKeys ==
    << <<"w", "o", "r", "k">>,
       <<"e", "d", "u", "c", "a", "t", "i", "o", "n">>,
       <<"l", "e", "a", "r", "n", "i", "n", "g">>,
       <<"f", "i", "t", "n", "e", "s", "s">>,
       <<"h", "e", "a", "l", "t", "h">>,
       <<"h", "o", "m", "e">>,
       <<"c", "h", "o", "r", "e", "s">>,
       <<"p", "e", "r", "s", "o", "n", "a", "l">> >>

categoryNarratives ==
    << <<"The", "Guild", "requires", "your", "expertise.", "Complete", "this", "task", "to", "gain", "favor", "with", "the", "Guild", "Masters.">>,
       <<"Ancient", "knowledge", "awaits", "your", "discovery.", "Master", "this", "arcane", "challenge", "to", "expand", "your", "wisdom.">>,
       <<"Ancient", "knowledge", "awaits", "your", "discovery.", "Master", "this", "arcane", "challenge", "to", "expand", "your", "wisdom.">>,
       <<"A", "warrior's", "strength", "comes", "from", "consistent", "training.", "Push", "through", "this", "challenge", "to", "enhance", "your", "power.">>,
       <<"A", "warrior's", "strength", "comes", "from", "consistent", "training.", "Push", "through", "this", "challenge", "to", "enhance", "your", "power.">>,
       <<"The", "village", "needs", "your", "attention.", "Restore", "order", "to", "this", "area", "to", "improve", "the", "prosperity", "of", "your", "domain.">>,
       <<"The", "village", "needs", "your", "attention.", "Restore", "order", "to", "this", "area", "to", "improve", "the", "prosperity", "of", "your", "domain.">>,
       <<"Your", "personal", "quest", "awaits.", "Success", "will", "bring", "you", "closer", "to", "fulfilling", "your", "destiny.">> >>

difficultyModifiers ==
    [ mini |-> <<"This", "is", "but", "a", "small", "step", "in", "your", "journey,", "yet", "important", "nonetheless.">>,
      normal |-> <<"A", "worthy", "challenge", "that", "will", "test", "your", "resolve", "and", "determination.">>,
      boss |-> <<"Beware,", "adventurer!", "This", "formidable", "task", "will", "require", "all", "your", "skill", "and", "courage", "to", "overcome.">> ]

messages ==
    << <<"The", "path", "to", "greatness", "is", "paved", "with", "completed", "quests!">>,
       <<"Even", "the", "mightiest", "heroes", "began", "with", "small", "victories.", "Keep", "going!">>,
       <<"Your", "quest", "log", "grows", "more", "impressive", "each", "day.", "The", "kingdom", "notices", "your", "deeds!">>,
       <<"The", "greatest", "adventure", "is", "the", "one", "that", "transforms", "you.", "Onward!">>,
       <<"A", "true", "hero", "knows", "that", "persistence", "unlocks", "all", "achievements.">>,
       <<"Your", "journey", "inspires", "others", "around", "you.", "Continue", "your", "noble", "path!">>,
       <<"Each", "completed", "quest", "brings", "you", "closer", "to", "legendary", "status.">>,
       <<"The", "rewards", "of", "consistency", "are", "waiting", "just", "over", "the", "horizon.">>,
       <<"Your", "dedication", "to", "your", "quests", "shapes", "your", "destiny.">>,
       <<"Today's", "small", "victory", "is", "tomorrow's", "epic", "tale!">> >>

defaultBadges ==
    ("First Quest" :> [badgeName |-> <<"Brave", "First", "Step">>,
        badgeDescription |-> <<"You", "completed", "your", "first", "quest", "and", "began", "your", "adventure!">>,
        iconType |-> "boot"]) @@
    ("Quest Novice" :> [badgeName |-> <<"Quest", "Seeker">>,
        badgeDescription |-> <<"You", "completed", "5", "quests", "and", "are", "developing", "your", "adventuring", "skills.">>,
        iconType |-> "scroll"]) @@
    ("Quest Adept" :> [badgeName |-> <<"Quest", "Champion">>,
        badgeDescription |-> <<"With", "10", "quests", "completed,", "your", "reputation", "grows", "throughout", "the", "realm.">>,
        iconType |-> "shield"]) @@
    ("Quest Master" :> [badgeName |-> <<"Quest", "Legend">>,
        badgeDescription |-> <<"After", "25", "quests,", "bards", "sing", "tales", "of", "your", "legendary", "accomplishments!">>,
        iconType |-> "crown"]) @@
    ("Consistent Adventurer" :> [badgeName |-> <<"Steadfast", "Journeyer">>,
        badgeDescription |-> <<"You", "maintained", "focus", "for", "3", "days", "straight.", "Your", "persistence", "is", "remarkable!">>,
        iconType |-> "calendar"]) @@
    ("Weekly Warrior" :> [badgeName |-> <<"Hero", "of", "the", "Week">>,
        badgeDescription |-> <<"A", "full", "week", "of", "continuous", "progress!", "Few", "adventurers", "show", "such", "dedication.">>,
        iconType |-> "star"]) @@
    ("Point Collector" :> [badgeName |-> <<"XP", "Gatherer">>,
        badgeDescription |-> <<"You've", "accumulated", "100", "XP", "points", "through", "your", "noble", "deeds.">>,
        iconType |-> "gem"]) @@
    ("XP Hunter" :> [badgeName |-> <<"XP", "Virtuoso">>,
        badgeDescription |-> <<"With", "500", "XP", "points,", "your", "power", "in", "the", "realm", "is", "undeniable!">>,
        iconType |-> "trophy"])

\* the theme word of a category (switch on category.toLowerCase())
questTheme(category) ==
    LET c == toLowerCase(category) IN
    CASE c = <<"w", "o", "r", "k">> -> "Guild"
      [] c = <<"e", "d", "u", "c", "a", "t", "i", "o", "n">> -> "Arcane"
      [] c = <<"s", "t", "u", "d", "y">> -> "Arcane"
      [] c = <<"l", "e", "a", "r", "n", "i", "n", "g">> -> "Arcane"
      [] c = <<"f", "i", "t", "n", "e", "s", "s">> -> "Warrior"
      [] c = <<"h", "e", "a", "l", "t", "h">> -> "Warrior"
      [] c = <<"h", "o", "m", "e">> -> "Village"
      [] c = <<"c", "h", "o", "r", "e", "s">> -> "Village"
      [] OTHER -> "Adventure"

\* the five title templates, in source order
questTitleTemplates(taskTitle, category) ==
    LET theme == questTheme(category)
        name  == capitalize(taskTitle)
    IN << <<"The", theme>> \o name,
          <<theme, "Mission:">> \o name,
          <<theme, "'s", "Call:">> \o name,
          <<"The", theme, "Seeker's">> \o name,
          name \o <<"of", "the", theme, "Realm">> >>

fallbackGenerateQuestTitle(taskTitle, category, r) ==
    LET templates == questTitleTemplates(taskTitle, category)
    IN templates[randomIndex(r, Len(templates)) + 1]

fallbackGenerateQuestNarrative(taskTitle, category, difficulty) ==
    LET lower   == toLowerCase(category)
        matches == { i \in 1..Len(categoryKeys) : includes(lower, categoryKeys[i]) }
        baseCategory ==
            IF matches = {} THEN Len(categoryKeys)
            ELSE CHOOSE i \in matches : \A j \in matches : i <= j
        modifier ==
            IF difficulty \in DOMAIN difficultyModifiers
            THEN difficultyModifiers[difficulty]
            ELSE difficultyModifiers.normal
    IN categoryNarratives[baseCategory] \o modifier

\* the message fallback with an index one past the drawn one; an index
\* past the end of the list reads as undefined
fallbackGenerateMotivationalMessageOffByOne(r) ==
    IF randomIndex(r, Len(messages)) + 2 <= Len(messages)
    THEN messages[randomIndex(r, Len(messages)) + 2]
    ELSE << "undefined" >>

fallbackGenerateMotivationalMessage(r) ==
    messages[randomIndex(r, Len(messages)) + 1]

\* the badge fallback without the table lookup
fallbackGenerateAchievementBadgeGeneric(achievementType, milestone) ==
    [ badgeName |-> <<achievementType, "Master">>,
      badgeDescription |->
          <<"You've", "reached", "the", "impressive", "milestone", "of",
            ToString(milestone), "!">>,
      iconType |-> "medal" ]

fallbackGenerateAchievementBadge(achievementType, milestone) ==
    IF achievementType \in DOMAIN defaultBadges
    THEN defaultBadges[achievementType]
    ELSE [ badgeName |-> <<achievementType, "Master">>,
           badgeDescription |->
               <<"You've", "reached", "the", "impressive", "milestone", "of",
                 ToString(milestone), "!">>,
           iconType |-> "medal" ]

\* ------------------------------------------------------------ JSON values
\* Every JavaScript value the gateway handles is a record with a type tag.
\* An object carries a function f from its own property names to values;
\* a property that is not in DOMAIN f reads as undefined.

Undefined == [type |-> "undefined"]

JsonNull == [type |-> "null"]

JsonString(s) == [type |-> "string", v |-> s]

JsonBool(b) == [type |-> "boolean", b |-> b]

JsonObject(f) == [type |-> "object", f |-> f]

\* reading a property throws a TypeError on null and undefined
CanReadProperty(x) == x.type \notin {"null", "undefined"}

\* x.p for a value x whose properties can be read
Get(x, p) ==
    IF x.type = "object" /\ p \in DOMAIN x.f THEN x.f[p] ELSE Undefined

\* ToBoolean
Truthy(x) ==
    CASE x.type = "undefined" -> FALSE
      [] x.type = "null" -> FALSE
      [] x.type = "boolean" -> x.b
      [] x.type = "string" -> x.v # << >>
      [] OTHER -> TRUE

\* a || b
Or(a, b) == IF Truthy(a) THEN a ELSE b

\* const { success, message, ...data } = response
WithoutSuccessAndMessage(response) ==
    JsonObject([ k \in DOMAIN response.f \ {"success", "message"} |-> response.f[k] ])

extractResponseData(response) ==
    IF Get(response, "success") = JsonBool(TRUE) /\ Get(response, "data") # Undefined
    THEN Get(response, "data")
    ELSE IF Get(response, "success") = JsonBool(TRUE)
    THEN WithoutSuccessAndMessage(response)
    ELSE response

\* --------------------------------------------------------- backend locator

\* a URL variable that holds no URL
null == "null"

\* A host string (Constants...hostUri, debuggerHost) is a sequence of
\* fragments, the separator ":" a fragment of its own; an unset, null or
\* empty one is the empty sequence.
NoHost == << >>

\* devServerHost.split(':')[0]: the text before the first ":"
RECURSIVE splitFirst(_)
splitFirst(s) ==
    IF s = << >> \/ Head(s) = ":" THEN ""
    ELSE Head(s) \o splitFirst(Tail(s))

\* Constants is not an object: reading a property of it throws
NoConstants == [object |-> FALSE]

\* Constants.manifest is null or undefined
NoManifest == [object |-> FALSE]

\* the devServerHost the try block of getPossibleServerUrls leaves:
\* expoConfig?.hostUri, else manifest.debuggerHost || manifest.hostUri,
\* undefined when reading Constants throws
devServerHostOf(Constants) ==
    IF ~Constants.object THEN NoHost
    ELSE IF Constants.expoConfigHostUri # NoHost THEN Constants.expoConfigHostUri
    ELSE IF ~Constants.manifest.object THEN NoHost
    ELSE IF Constants.manifest.debuggerHost # NoHost
    THEN Constants.manifest.debuggerHost
    ELSE Constants.manifest.hostUri

\* the urls array before it is deduplicated: the pushes of lines 15-56.
\* env.configuredUrl is EXPO_PUBLIC_API_URL ("" when unset), env.OS is
\* Platform.OS, env.Constants the expo-constants object.
pushedUrls(env) ==
    LET devServerHost == devServerHostOf(env.Constants)
        host == splitFirst(devServerHost)
    IN (IF env.configuredUrl # "" THEN << env.configuredUrl >> ELSE << >>)
       \o << "http://localhost:3000/api", "http://127.0.0.1:3000/api" >>
       \o (IF env.OS = "android" THEN << "http://10.0.2.2:3000/api" >> ELSE << >>)
       \o (IF env.OS = "ios" THEN << "http://localhost:3000/api" >> ELSE << >>)
       \o (IF devServerHost # NoHost
           THEN IF host # "" /\ host # "localhost" /\ host # "127.0.0.1"
                THEN << "http://" \o host \o ":3000/api" >>
                ELSE << >>
           ELSE << "http://192.168.1.1:3000/api", "http://192.168.0.1:3000/api" >>)

\* the elements of a sequence
Elements(s) == { s[i] : i \in 1..Len(s) }

\* a deduplication that keeps the array as it is
spreadOfSetKeepsAll(urls) == urls

\* [...new Set(urls)]: a Set keeps each value once, in insertion order
RECURSIVE spreadOfSet(_)
spreadOfSet(urls) ==
    IF urls = << >> THEN << >>
    ELSE LET front == spreadOfSet(SubSeq(urls, 1, Len(urls) - 1))
             last == urls[Len(urls)]
         IN IF last \in Elements(front) THEN front ELSE Append(front, last)

\* getPossibleServerUrls() in the environment env
getPossibleServerUrls(env) == spreadOfSet(pushedUrls(env))

\* the environment of the gateway's runs: no configured URL, the web
\* platform, a dev server on localhost
GatewayEnvironment ==
    [ configuredUrl |-> "", OS |-> "web",
      Constants |-> [ object |-> TRUE,
                      expoConfigHostUri |-> << "localhost", ":", "8081" >>,
                      manifest |-> NoManifest ] ]

\* the candidate URLs of the gateway's runs as a set
CandidateUrls == Elements(getPossibleServerUrls(GatewayEnvironment))

\* what NetInfo.fetch() can come to
NetInfoOutcomes == {"connected", "disconnected", "rejected"}

\* One run of discoverBackendUrl.  cachedUrl is the persisted
\* working_backend_url, readFails / writeFails say whether AsyncStorage
\* rejects, cachedReachable is the verdict of isUrlReachable on the cached
\* URL, netInfo the outcome of NetInfo.fetch(), reachable the candidates
\* isUrlReachable answers true for.  The result is the returned URL (or
\* null), whether the run threw, the number of health requests sent and
\* the persisted URL afterwards.
discoverBackendUrl(cachedUrl, readFails, cachedReachable, netInfo, reachable, writeFails) ==
    LET urls == getPossibleServerUrls(GatewayEnvironment)
        probesCached == ~readFails /\ cachedUrl # null
        found == { i \in 1..Len(urls) : urls[i] \in reachable }
        first == CHOOSE i \in found : \A j \in found : i <= j
        n0 == IF probesCached THEN 1 ELSE 0
    IN IF probesCached /\ cachedReachable
       THEN [url |-> cachedUrl, threw |-> FALSE, probes |-> 1, stored |-> cachedUrl]
       ELSE IF netInfo = "rejected"
       THEN [url |-> null, threw |-> TRUE, probes |-> n0, stored |-> cachedUrl]
       ELSE IF netInfo = "disconnected"
       THEN [url |-> null, threw |-> FALSE, probes |-> n0, stored |-> cachedUrl]
       ELSE IF found = {}
       THEN [url |-> null, threw |-> FALSE, probes |-> n0 + Len(urls), stored |-> cachedUrl]
       ELSE [url |-> urls[first], threw |-> FALSE, probes |-> n0 + first,
             stored |-> IF writeFails THEN cachedUrl ELSE urls[first]]

\* ------------------------------------------------------- generation gateway

ENABLE_API_CACHE == TRUE

\* 24 hours in milliseconds
CACHE_EXPIRY == 24 * 60 * 60 * 1000

OneMinute == 60 * 1000

EndpointTransformTask == << "transform-task" >>

EndpointAchievementBadge == << "achievement-badge" >>

\* `motivational-message?random=${Math.random()}`
uniqueEndpoint(r) == << "motivational-message", "?random=", ToString(r) >>

\* the body of a GET request
NoBody == [none |-> TRUE]

\* `taskflick_cache_${endpoint}_${body ? JSON.stringify(body) : ''}`
cacheKey(endpoint, body) == [endpoint |-> endpoint, body |-> body]

\* the guard of the cache read and of the cache write
cacheApplies(endpoint) ==
    ENABLE_API_CACHE /\ endpoint # << "motivational-message" >>

\* JSON.stringify({ data, timestamp }), the text kept in AsyncStorage
JSONstringify(data, timestamp) ==
    [text |-> "json", data |-> data, timestamp |-> timestamp]

\* the expiry test with <= for <
notExpiredInclusive(t, timestamp) == t - timestamp <= CACHE_EXPIRY

\* Date.now() - timestamp < CACHE_EXPIRY
notExpired(t, timestamp) == t - timestamp < CACHE_EXPIRY

\* the cache read that loses the data of the entry it finds
cacheLookupWithoutData(stored, t) ==
    [hit |-> stored.text = "json" /\ notExpired(t, stored.timestamp),
     data |-> Undefined]

\* the cache read of callApi on the stored text: the data on a hit
cacheLookup(stored, t) ==
    IF stored.text = "json" /\ notExpired(t, stored.timestamp)
    THEN [hit |-> TRUE, data |-> stored.data]
    ELSE [hit |-> FALSE, data |-> Undefined]

\* result.success === undefined || result.success === true
cacheableResult(result) ==
    Get(result, "success") = Undefined \/ Get(result, "success") = JsonBool(TRUE)

\* an outcome of callApi: a returned value or a thrown error
Returned(v) == [threw |-> FALSE, value |-> v]

Thrown == [threw |-> TRUE, value |-> Undefined]

DefaultMotivationalMessage ==
    JsonString(<< "Your", "adventure", "awaits,", "brave", "hero!" >>)

\* transformTaskToQuest without its catch block
transformTaskToQuestUncaught(args, api, r) ==
    IF ~api.threw /\ CanReadProperty(api.value)
    THEN [ outcome |-> "returned", fallback |-> FALSE,
           result |-> JsonObject(
               [ questTitle |-> Get(api.value, "questTitle"),
                 questNarrative |-> Get(api.value, "questNarrative"),
                 isAIGenerated |-> JsonBool(TRUE) ]) ]
    ELSE [ outcome |-> "threw", fallback |-> FALSE, result |-> Undefined ]

\* the try/catch body of transformTaskToQuest once callApi has settled;
\* r is the value Math.random() gives the title fallback
transformTaskToQuest(args, api, r) ==
    IF ~api.threw /\ CanReadProperty(api.value)
    THEN [ outcome |-> "returned", fallback |-> FALSE,
           result |-> JsonObject(
               [ questTitle |-> Get(api.value, "questTitle"),
                 questNarrative |-> Get(api.value, "questNarrative"),
                 isAIGenerated |-> JsonBool(TRUE) ]) ]
    ELSE [ outcome |-> "returned", fallback |-> TRUE,
           result |-> JsonObject(
               [ questTitle |-> JsonString(
                     fallbackGenerateQuestTitle(args.taskTitle, args.category, r)),
                 questNarrative |-> JsonString(
                     fallbackGenerateQuestNarrative(args.taskTitle, args.category,
                                                    args.difficulty)),
                 isAIGenerated |-> JsonBool(FALSE) ]) ]

\* the try/catch body of generateMotivationalMessage once callApi has settled
generateMotivationalMessage(api, r) ==
    IF ~api.threw
    THEN LET result == api.value
             data == Get(result, "data")
         IN [ outcome |-> "returned", fallback |-> FALSE,
              result |->
                IF Truthy(result) /\ Truthy(Get(result, "motivationalMessage"))
                THEN Get(result, "motivationalMessage")
                ELSE IF Truthy(result) /\ result.type = "object"
                THEN Or(Or(Or(Get(result, "motivationalMessage"),
                              Get(result, "message")),
                           IF Truthy(data)
                           THEN Get(data, "motivationalMessage") ELSE data),
                        DefaultMotivationalMessage)
                ELSE result ]
    ELSE [ outcome |-> "returned", fallback |-> TRUE,
           result |-> JsonString(fallbackGenerateMotivationalMessage(r)) ]

\* { ...x }: the own properties of an object, none for null and undefined
Spread(x) == IF x.type = "object" THEN x.f ELSE << >>

\* generateAchievementBadge with { isAIGenerated: true, ...result }
generateAchievementBadgeFlagFirst(args, api) ==
    IF ~api.threw
    THEN [ outcome |-> "returned", fallback |-> FALSE,
           result |-> JsonObject(
               [ k \in DOMAIN Spread(api.value) \cup {"isAIGenerated"} |->
                   IF k \in DOMAIN Spread(api.value) THEN Spread(api.value)[k]
                   ELSE JsonBool(TRUE) ]) ]
    ELSE LET fallbackBadge ==
                 fallbackGenerateAchievementBadge(args.achievementType, args.milestone)
         IN [ outcome |-> "returned", fallback |-> TRUE,
              result |-> JsonObject(
                  [ badgeName |-> JsonString(fallbackBadge.badgeName),
                    badgeDescription |-> JsonString(fallbackBadge.badgeDescription),
                    iconType |-> JsonString(<< fallbackBadge.iconType >>),
                    isAIGenerated |-> JsonBool(FALSE) ]) ]

\* the try/catch body of generateAchievementBadge once callApi has settled
generateAchievementBadge(args, api) ==
    IF ~api.threw
    THEN [ outcome |-> "returned", fallback |-> FALSE,
           result |-> JsonObject(
               [ k \in DOMAIN Spread(api.value) \cup {"isAIGenerated"} |->
                   IF k = "isAIGenerated" THEN JsonBool(TRUE)
                   ELSE Spread(api.value)[k] ]) ]
    ELSE LET fallbackBadge ==
                 fallbackGenerateAchievementBadge(args.achievementType, args.milestone)
         IN [ outcome |-> "returned", fallback |-> TRUE,
              result |-> JsonObject(
                  [ badgeName |-> JsonString(fallbackBadge.badgeName),
                    badgeDescription |-> JsonString(fallbackBadge.badgeDescription),
                    iconType |-> JsonString(<< fallbackBadge.iconType >>),
                    isAIGenerated |-> JsonBool(FALSE) ]) ]

\* the gateway operation op on the outcome of its callApi
gatewayOperation(op, args, api, r) ==
    CASE op = "transform-task" -> transformTaskToQuest(args, api, r)
      [] op = "motivational-message" -> generateMotivationalMessage(api, r)
      [] op = "achievement-badge" -> generateAchievementBadge(args, api)

\* ------------------------------------------------------------- the machine

\* the gateway calls that can be in flight at once
Callers == {"c1"}

\* the instants at which the clock is looked at: the load of the module
\* and one TTL later
Instants == {0, CACHE_EXPIRY}

\* the instants around the expiry of an entry written at 0
ExpiryInstants ==
    {0, CACHE_EXPIRY - OneMinute, CACHE_EXPIRY, CACHE_EXPIRY + OneMinute}

\* the values of Math.random() that end up in the motivational endpoint
EndpointRandomValues == {RandomDenominator - 1}

Operations == {"transform-task", "motivational-message", "achievement-badge"}

\* the arguments the callers pass
TransformArgs ==
    { [taskTitle |-> <<"m", "o", "p">>,
       category |-> <<"H", "o", "m", "e", " ", "c", "h", "o", "r", "e", "s">>,
       difficulty |-> "boss"] }

BadgeArgs ==
    { [achievementType |-> "First Quest", milestone |-> 1] }

ArgsOf(op) ==
    CASE op = "transform-task" -> TransformArgs
      [] op = "motivational-message" -> { [random |-> r] : r \in EndpointRandomValues }
      [] op = "achievement-badge" -> BadgeArgs

endpointOf(op, args) ==
    CASE op = "transform-task" -> EndpointTransformTask
      [] op = "motivational-message" -> uniqueEndpoint(args.random)
      [] op = "achievement-badge" -> EndpointAchievementBadge

bodyOf(op, args) ==
    IF op = "motivational-message" THEN NoBody ELSE args

RemoteTitle == JsonString(<< "The", "Mop", "of", "Destiny" >>)

RemoteNarrative == JsonString(<< "Dust", "gathers", "in", "the", "keep." >>)

RemoteMessage == JsonString(<< "Onward,", "hero!" >>)

RemoteBadgeName == JsonString(<< "Dawn", "Walker" >>)

RemoteBadgeDescription == JsonString(<< "You", "took", "the", "first", "step." >>)

RefusalMessage == JsonString(<< "Missing", "required", "field" >>)

\* the JSON bodies a server can send with a success status
Bodies(op) ==
    CASE op = "transform-task" ->
           { JsonObject([success |-> JsonBool(TRUE), questTitle |-> RemoteTitle,
                         questNarrative |-> RemoteNarrative]),
             JsonObject([success |-> JsonBool(TRUE),
                         data |-> JsonObject([questTitle |-> RemoteTitle,
                                              questNarrative |-> RemoteNarrative])]),
             JsonObject([success |-> JsonBool(FALSE), message |-> RefusalMessage]),
             JsonNull }
      [] op = "motivational-message" ->
           { JsonObject([success |-> JsonBool(TRUE),
                         motivationalMessage |-> RemoteMessage]),
             JsonObject([success |-> JsonBool(FALSE), message |-> RefusalMessage]),
             JsonNull }
      [] op = "achievement-badge" ->
           { JsonObject([success |-> JsonBool(TRUE), badgeName |-> RemoteBadgeName,
                         badgeDescription |-> RemoteBadgeDescription]),
             JsonObject([badgeName |-> RemoteBadgeName,
                         badgeDescription |-> RemoteBadgeDescription,
                         isAIGenerated |-> JsonBool(FALSE)]),
             JsonObject([success |-> JsonBool(FALSE), message |-> RefusalMessage]),
             JsonNull }

\* what the generation request can come to
FetchOutcomes == {"network_error", "not_ok", "parse_error", "ok"}

VARIABLES
    USE_BACKEND_GENERATION,  \* the configuration flag, read once at load
    discoveredBackendUrl,    \* the module-level URL, null until discovered
    startup,                 \* the load-time discovery task: where it is
                             \* and whether it has sent a health request
    working_backend_url,     \* AsyncStorage: the persisted working URL
    cache,                   \* AsyncStorage: cache key -> stored text
    now,                     \* Date.now(), in ms since the module loaded
    online,                  \* whether any HTTP request can get through
    calls,                   \* the gateway call of each caller
    environment,             \* EXPO_PUBLIC_API_URL, Platform.OS, Constants
    listed,                  \* the last result of getPossibleServerUrls()
    probe,                   \* the isUrlReachable call followed step by step
    runs,                    \* the discoverBackendUrl call of each runner
    locatorLog,              \* what the health checks and the writes of
                             \* working_backend_url have been so far
    badgeCall,               \* a call of the local badge fallback
    tasks,                   \* TaskContext: the tasks state
    userStats,               \* TaskContext: the userStats state
    completions,             \* TaskContext: the completeTask calls under way
    deviceNow,               \* new Date() on the device
    tokenCache,              \* authService: the module-level token cache
    tokenCalls,              \* authService: the getIBMToken calls
    clock,                   \* Date.now() on the backend, in milliseconds
    tokenLog,                \* whether resetTokenCache ran since the last
                             \* getIBMToken call started
    submitLock,              \* SettingsScreen: submitLock.current
    form                     \* SettingsScreen: the add-quest form

\* the state of the gateway module
gatewayVars ==
    << USE_BACKEND_GENERATION, discoveredBackendUrl, startup, cache, now,
       online, calls >>

\* the state the locator adds to the persisted URL
locatorVars == << environment, listed, probe, runs, locatorLog >>

\* the state of the task list
taskVars == << tasks, userStats, completions, deviceNow >>

\* the state of the backend's token cache
authVars == << tokenCache, tokenCalls, clock, tokenLog >>

\* the state of the add-quest form
formVars == << submitLock, form >>

\* the state outside the gateway and the locator
appVars == << badgeCall, taskVars, authVars, formVars >>

vars == << gatewayVars, working_backend_url, locatorVars, appVars >>

\* getPossibleServerUrls() has not been called
NotListed == [computed |-> FALSE, urls |-> << >>]

\* no isUrlReachable call is followed
NoProbe ==
    [ pc |-> "idle", url |-> null, healthUrl |-> null, startedAt |-> 0,
      timer |-> "none", status |-> "none", body |-> "none",
      ended |-> "none", verdict |-> "none" ]

\* the runners of discoverBackendUrl: the startup task and a gateway call
Runners == {1, 2}

\* a runner with no discoverBackendUrl call
NoRun ==
    [ pc |-> "idle", cachedUrl |-> null, readFailed |-> FALSE,
      netInfo |-> "none", urls |-> << >>, probed |-> << >>,
      wrote |-> null, writeFailed |-> FALSE, result |-> null ]

\* nothing has been probed or written
NoLog ==
    [ passed |-> {}, lastPassed |-> null, lastWriter |-> 0,
      storageFailed |-> FALSE ]

\* the locator's own state while the gateway is followed
LocatorAtRest ==
    /\ environment = GatewayEnvironment
    /\ listed = NotListed
    /\ probe = NoProbe
    /\ runs = [k \in Runners |-> NoRun]
    /\ locatorLog = NoLog

\* the badge fallback has not been called
NoBadge ==
    [ computed |-> FALSE, achievementType |-> "", milestone |-> 0,
      result |-> Undefined ]

\* an instant of the device clock: a calendar day and a time of that day
FirstInstant == [date |-> 0, part |-> "am"]

\* useState's initial userStats
InitialStats ==
    [ points |-> 0, completedQuests |-> 0, currentStreak |-> 0,
      longestStreak |-> 0, lastCompletedDate |-> JsonNull, badges |-> << >> ]

\* no completeTask call
NoCompletion ==
    [ pc |-> "idle", taskId |-> 0, read |-> InitialStats,
      updatedTasks |-> << >>, updatedStats |-> InitialStats,
      checked |-> << >> ]

\* the task list while other components are followed
TasksAtRest ==
    /\ tasks = << >>
    /\ userStats = InitialStats
    /\ completions = [k \in Runners |-> NoCompletion]
    /\ deviceNow = FirstInstant

\* let tokenCache = { token: null, expiresAt: 0 }
EmptyTokenCache == [token |-> null, expiresAt |-> 0]

\* the add-quest form as mounted: nothing submitted, no timer set
IdleForm ==
    [ valid |-> FALSE, isSubmitting |-> FALSE, invocations |-> 0,
      addTaskCalls |-> 0, ignored |-> 0, inFlight |-> 0, timers |-> << >> ]

\* no getIBMToken call
NoTokenCall ==
    [ pc |-> "idle", currentTime |-> 0, requested |-> FALSE, expiresIn |-> 0,
      result |-> null ]

\* the token cache while other components are followed
TokenAtRest ==
    /\ tokenCache = EmptyTokenCache
    /\ tokenCalls = [k \in Runners |-> NoTokenCall]
    /\ clock = 0
    /\ tokenLog = [reset |-> FALSE]

\* the add-quest form while other components are followed
FormAtRest ==
    /\ submitLock = FALSE
    /\ form = IdleForm

\* the state outside the gateway and the locator while those are followed
AppAtRest ==
    /\ badgeCall = NoBadge
    /\ TasksAtRest
    /\ TokenAtRest
    /\ FormAtRest

\* a caller with no call
NoCall ==
    [ pc |-> "idle", op |-> "none", args |-> NoBody,
      cacheRead |-> "none", readAge |-> 0,
      locatorRuns |-> 0, probes |-> 0, requests |-> 0,
      response |-> Undefined, timestamp |-> 0, wrote |-> FALSE,
      source |-> "none", reason |-> "none",
      outcome |-> "pending", result |-> Undefined ]

Init ==
    /\ USE_BACKEND_GENERATION \in BOOLEAN
    /\ discoveredBackendUrl = null
    /\ startup = [pc |-> "discovering", probed |-> FALSE]
    /\ working_backend_url = null
    /\ cache = << >>
    /\ now = 0
    /\ online \in BOOLEAN
    /\ calls = [c \in Callers |-> NoCall]
    /\ LocatorAtRest
    /\ AppAtRest

\* the call record once the operation has settled on the outcome api of callApi
Settle(rec, api, source, reason, r) ==
    LET o == gatewayOperation(rec.op, rec.args, api, r)
    IN [ rec EXCEPT !.pc = "done",
                    !.outcome = o.outcome,
                    !.result = o.result,
                    !.source = IF o.fallback THEN "fallback" ELSE source,
                    !.reason = IF o.fallback /\ reason = "none"
                               THEN "unusable value" ELSE reason,
                    !.timestamp = 0 ]

\* callApi from line 106 on without the check of line 107: the generation
\* request is sent whether a URL is known or not
ProceedUnchecked(rec) ==
    [ rec EXCEPT !.pc = "fetching", !.requests = @ + 1 ]

\* callApi from line 106 on: discover when no URL is known, else send the
\* generation request to the known URL
Proceed(rec) ==
    IF discoveredBackendUrl = null
    THEN [ rec EXCEPT !.pc = "discovering", !.locatorRuns = @ + 1 ]
    ELSE [ rec EXCEPT !.pc = "fetching", !.requests = @ + 1 ]

\* the verdicts isUrlReachable can give now
VerdictsNow == IF online THEN BOOLEAN ELSE {FALSE}

\* the sets of candidates isUrlReachable can answer true for now
ReachableNow == IF online THEN SUBSET CandidateUrls ELSE { {} }

\* the outcomes a generation request can have now
FetchesNow == IF online THEN FetchOutcomes ELSE {"network_error"}

\* the startup task: discoveredBackendUrl = await discoverBackendUrl(),
\* inside try/catch
StartupDiscovery ==
    /\ startup.pc = "discovering"
    /\ \E readFails \in BOOLEAN, cachedReachable \in VerdictsNow,
          netInfo \in NetInfoOutcomes, writeFails \in BOOLEAN,
          reachable \in ReachableNow :
        LET d == discoverBackendUrl(working_backend_url, readFails, cachedReachable,
                                    netInfo, reachable, writeFails)
        IN /\ discoveredBackendUrl' = IF d.threw THEN discoveredBackendUrl ELSE d.url
           /\ working_backend_url' = d.stored
           /\ startup' = [pc |-> "done", probed |-> d.probes > 0]
    /\ UNCHANGED << appVars, locatorVars, USE_BACKEND_GENERATION, cache, now, online, calls >>

\* a caller invokes one of the three operations; the operation runs to its
\* first await: the fallback at once when generation is disabled, else the
\* cache read of callApi
Begin(c, ops) ==
    /\ calls[c].pc \in {"idle", "done"}
    /\ \E op \in ops : \E args \in ArgsOf(op) : \E r \in RandomValues :
        LET rec == [NoCall EXCEPT !.op = op, !.args = args]
        IN calls' = [calls EXCEPT ![c] =
               IF ~USE_BACKEND_GENERATION
               THEN Settle(rec, Thrown, "none", "disabled", r)
               ELSE IF cacheApplies(endpointOf(op, args))
               THEN [rec EXCEPT !.pc = "cacheRead"]
               ELSE Proceed(rec)]
    /\ UNCHANGED << appVars, locatorVars, USE_BACKEND_GENERATION, discoveredBackendUrl, startup,
                    working_backend_url, cache, now, online >>

\* AsyncStorage.getItem(cacheKey) settles in a callApi whose cache read is
\* not inside a try block of its own: an entry that does not parse, or a
\* failed read, throws out of callApi
CacheReadUnguarded(c) ==
    LET rec == calls[c]
        key == cacheKey(endpointOf(rec.op, rec.args), bodyOf(rec.op, rec.args))
    IN
    /\ rec.pc = "cacheRead"
    /\ \E readFails \in BOOLEAN, r \in RandomValues :
        calls' = [calls EXCEPT ![c] =
            IF readFails
            THEN Settle([rec EXCEPT !.cacheRead = "error"], Thrown, "none",
                        "parse_error", r)
            ELSE IF key \notin DOMAIN cache
            THEN Proceed([rec EXCEPT !.cacheRead = "absent"])
            ELSE IF cache[key].text # "json"
            THEN Settle([rec EXCEPT !.cacheRead = "corrupt"], Thrown, "none",
                        "parse_error", r)
            ELSE IF cacheLookup(cache[key], now).hit
            THEN Settle([rec EXCEPT !.cacheRead = "hit",
                                    !.readAge = now - cache[key].timestamp,
                                    !.response = cache[key].data],
                        Returned(cacheLookup(cache[key], now).data),
                        "cache", "none", r)
            ELSE Proceed([rec EXCEPT !.cacheRead = "expired",
                                     !.readAge = now - cache[key].timestamp])]
    /\ UNCHANGED << appVars, locatorVars, USE_BACKEND_GENERATION, discoveredBackendUrl, startup,
                    working_backend_url, cache, now, online >>

\* AsyncStorage.getItem(cacheKey) settles
CacheRead(c) ==
    LET rec == calls[c]
        key == cacheKey(endpointOf(rec.op, rec.args), bodyOf(rec.op, rec.args))
    IN
    /\ rec.pc = "cacheRead"
    /\ \E readFails \in BOOLEAN, r \in RandomValues :
        calls' = [calls EXCEPT ![c] =
            IF readFails
            THEN Proceed([rec EXCEPT !.cacheRead = "error"])
            ELSE IF key \notin DOMAIN cache
            THEN Proceed([rec EXCEPT !.cacheRead = "absent"])
            ELSE IF cache[key].text # "json"
            THEN Proceed([rec EXCEPT !.cacheRead = "corrupt"])
            ELSE IF cacheLookup(cache[key], now).hit
            THEN Settle([rec EXCEPT !.cacheRead = "hit",
                                    !.readAge = now - cache[key].timestamp,
                                    !.response = cache[key].data],
                        Returned(cacheLookup(cache[key], now).data),
                        "cache", "none", r)
            ELSE Proceed([rec EXCEPT !.cacheRead = "expired",
                                     !.readAge = now - cache[key].timestamp])]
    /\ UNCHANGED << appVars, locatorVars, USE_BACKEND_GENERATION, discoveredBackendUrl, startup,
                    working_backend_url, cache, now, online >>

\* discoveredBackendUrl = await discoverBackendUrl() settles inside callApi
Discover(c) ==
    LET rec == calls[c] IN
    /\ rec.pc = "discovering"
    /\ \E readFails \in BOOLEAN, cachedReachable \in VerdictsNow,
          netInfo \in NetInfoOutcomes, writeFails \in BOOLEAN,
          reachable \in ReachableNow, r \in RandomValues :
        LET d == discoverBackendUrl(working_backend_url, readFails, cachedReachable,
                                    netInfo, reachable, writeFails)
            rec1 == [rec EXCEPT !.probes = @ + d.probes]
        IN /\ discoveredBackendUrl' = IF d.threw THEN discoveredBackendUrl ELSE d.url
           /\ working_backend_url' = d.stored
           /\ calls' = [calls EXCEPT ![c] =
                  IF d.threw
                  THEN Settle(rec1, Thrown, "none", "discovery threw", r)
                  ELSE IF d.url = null
                  THEN Settle(rec1, Thrown, "none", "no backend", r)
                  ELSE [rec1 EXCEPT !.pc = "fetching", !.requests = @ + 1]]
    /\ UNCHANGED << appVars, locatorVars, USE_BACKEND_GENERATION, startup, cache, now, online >>

\* the generation request settles: fetch, then response.text() or
\* response.json(), up to the await of the cache write
Fetch(c) ==
    LET rec == calls[c]
        endpoint == endpointOf(rec.op, rec.args)
    IN
    /\ rec.pc = "fetching"
    /\ \E fo \in FetchesNow, body \in Bodies(rec.op), r \in RandomValues :
        calls' = [calls EXCEPT ![c] =
            IF fo # "ok"
            THEN Settle(rec, Thrown, "none", fo, r)
            ELSE IF ~CanReadProperty(body)
            THEN Settle([rec EXCEPT !.response = body], Thrown, "none",
                        "type error", r)
            ELSE IF cacheApplies(endpoint) /\ cacheableResult(body)
            THEN [rec EXCEPT !.pc = "cacheWrite", !.response = body,
                             !.timestamp = now]
            ELSE Settle([rec EXCEPT !.response = body],
                        Returned(extractResponseData(body)), "remote", "none", r)]
    /\ UNCHANGED << appVars, locatorVars, USE_BACKEND_GENERATION, discoveredBackendUrl, startup,
                    working_backend_url, cache, now, online >>

\* AsyncStorage.setItem(cacheKey, ...) settles in a callApi whose cache
\* write is not inside a try block of its own: a failed write throws out
\* of callApi
CacheWriteUnguarded(c) ==
    LET rec == calls[c]
        key == cacheKey(endpointOf(rec.op, rec.args), bodyOf(rec.op, rec.args))
        data == extractResponseData(rec.response)
    IN
    /\ rec.pc = "cacheWrite"
    /\ \E writeFails \in BOOLEAN, r \in RandomValues :
        /\ cache' = IF writeFails THEN cache
                    ELSE (key :> JSONstringify(data, rec.timestamp)) @@ cache
        /\ calls' = [calls EXCEPT ![c] =
               IF writeFails
               THEN Settle(rec, Thrown, "none", "cache write", r)
               ELSE Settle([rec EXCEPT !.wrote = TRUE],
                           Returned(data), "remote", "none", r)]
    /\ UNCHANGED << appVars, locatorVars, USE_BACKEND_GENERATION, discoveredBackendUrl, startup,
                    working_backend_url, now, online >>

\* AsyncStorage.setItem(cacheKey, ...) settles and callApi returns
CacheWrite(c) ==
    LET rec == calls[c]
        key == cacheKey(endpointOf(rec.op, rec.args), bodyOf(rec.op, rec.args))
        data == extractResponseData(rec.response)
    IN
    /\ rec.pc = "cacheWrite"
    /\ \E writeFails \in BOOLEAN, r \in RandomValues :
        /\ cache' = IF writeFails THEN cache
                    ELSE (key :> JSONstringify(data, rec.timestamp)) @@ cache
        /\ calls' = [calls EXCEPT ![c] =
               Settle([rec EXCEPT !.wrote = ~writeFails],
                      Returned(data), "remote", "none", r)]
    /\ UNCHANGED << appVars, locatorVars, USE_BACKEND_GENERATION, discoveredBackendUrl, startup,
                    working_backend_url, now, online >>

\* time passes, up to one of the given instants
Tick(instants) ==
    /\ \E t \in instants : t > now /\ now' = t
    /\ UNCHANGED << appVars, locatorVars, USE_BACKEND_GENERATION, discoveredBackendUrl, startup,
                    working_backend_url, cache, online, calls >>

\* the device gains or loses its connection to every server.  While the
\* device is online any single request can still fail, so a change of
\* connectivity in the middle of a call adds no behaviour of the call: the
\* model lets connectivity change between calls only.
Connectivity ==
    /\ startup.pc = "done"
    /\ \A c \in Callers : calls[c].pc \in {"idle", "done"}
    /\ online' = ~online
    /\ UNCHANGED << appVars, locatorVars, USE_BACKEND_GENERATION, discoveredBackendUrl, startup,
                    working_backend_url, cache, now, calls >>

Next ==
    \/ StartupDiscovery
    \/ \E c \in Callers : Begin(c, Operations)
    \/ \E c \in Callers : CacheRead(c)
    \/ \E c \in Callers : Discover(c)
    \/ \E c \in Callers : Fetch(c)
    \/ \E c \in Callers : CacheWrite(c)
    \/ Tick(Instants)
    \/ Connectivity

Spec == Init /\ [][Next]_vars

\* the gateway under transform-task calls alone, with the clock stopping
\* at the instants around the expiry of a cache entry
NextExpiry ==
    \/ StartupDiscovery
    \/ \E c \in Callers : Begin(c, {"transform-task"})
    \/ \E c \in Callers : CacheRead(c)
    \/ \E c \in Callers : Discover(c)
    \/ \E c \in Callers : Fetch(c)
    \/ \E c \in Callers : CacheWrite(c)
    \/ Tick(ExpiryInstants)
    \/ Connectivity

SpecExpiry == Init /\ [][NextExpiry]_vars

\* the stored text of a cache entry that JSON.parse rejects
UnparsableEntry == [text |-> "truncated"]

\* the storage layer damages a cache entry: a write cut short, or a value
\* left by another version of the app
CorruptEntry ==
    /\ \E key \in DOMAIN cache :
        /\ cache[key].text = "json"
        /\ cache' = [cache EXCEPT ![key] = UnparsableEntry]
    /\ UNCHANGED << appVars, locatorVars, USE_BACKEND_GENERATION, discoveredBackendUrl,
                    startup, working_backend_url, now, online, calls >>

\* the gateway under transform-task calls alone, over a storage whose
\* entries can become unparsable
NextCorrupt ==
    \/ StartupDiscovery
    \/ \E c \in Callers : Begin(c, {"transform-task"})
    \/ \E c \in Callers : CacheRead(c)
    \/ \E c \in Callers : Discover(c)
    \/ \E c \in Callers : Fetch(c)
    \/ \E c \in Callers : CacheWrite(c)
    \/ Tick(Instants)
    \/ Connectivity
    \/ CorruptEntry

SpecCorrupt == Init /\ [][NextCorrupt]_vars

\* ------------------------------------------------------ candidate listing

\* the gateway's state while the locator is followed on its own: the module
\* is loaded with generation disabled and no call is made
GatewayAtRest ==
    /\ USE_BACKEND_GENERATION = FALSE
    /\ discoveredBackendUrl = null
    /\ startup = [pc |-> "done", probed |-> FALSE]
    /\ cache = << >>
    /\ now = 0
    /\ online = TRUE
    /\ calls = [c \in Callers |-> NoCall]

\* values of EXPO_PUBLIC_API_URL: unset, a URL of its own, and URLs the
\* function also pushes by itself
ConfiguredUrls ==
    { "", "https://api.taskflick.app/api", "http://localhost:3000/api",
      "http://10.0.2.2:3000/api", "http://192.168.0.1:3000/api" }

\* values of Platform.OS
Platforms == {"ios", "android", "web"}

\* values of hostUri and debuggerHost
Hosts ==
    { NoHost, << "localhost", ":", "8081" >>, << "127.0.0.1", ":", "19000" >>,
      << "192.168.1.23", ":", "8081" >>, << "10.0.2.2", ":", "8081" >>,
      << "192.168.1.1" >>, << ":", "8081" >> }

\* values of Constants.manifest
Manifests ==
    { NoManifest }
    \cup { [object |-> TRUE, debuggerHost |-> d, hostUri |-> h] :
             d \in {NoHost, << "192.168.1.23", ":", "8081" >>},
             h \in {NoHost, << "10.0.2.2", ":", "8081" >>} }

\* values of the expo-constants object
ConstantsValues ==
    { NoConstants }
    \cup { [object |-> TRUE, expoConfigHostUri |-> h, manifest |-> m] :
             h \in Hosts, m \in Manifests }

\* the environments getPossibleServerUrls is listed in
Environments ==
    { [configuredUrl |-> u, OS |-> os, Constants |-> c] :
        u \in ConfiguredUrls, os \in Platforms, c \in ConstantsValues }

InitCandidates ==
    /\ GatewayAtRest
    /\ AppAtRest
    /\ working_backend_url = null
    /\ environment \in Environments
    /\ listed = NotListed
    /\ probe = NoProbe
    /\ runs = [k \in Runners |-> NoRun]
    /\ locatorLog = NoLog

\* getPossibleServerUrls() is called and returns
ListCandidates ==
    /\ ~listed.computed
    /\ listed' = [computed |-> TRUE, urls |-> getPossibleServerUrls(environment)]
    /\ UNCHANGED << appVars, gatewayVars, working_backend_url, environment, probe, runs,
                    locatorLog >>

NextCandidates == ListCandidates

SpecCandidates == InitCandidates /\ [][NextCandidates]_vars

\* ------------------------------------------------------------ health check

\* the delay of the abort timer of isUrlReachable, in ms
TimeoutMs == 3000

\* the step of the clock while a health check is followed
HalfTimeout == TimeoutMs \div 2

\* the instant the clock stops at while a health check is followed
ProbeClockEnd == 2 * TimeoutMs

\* s.endsWith(suffix)
endsWith(s, suffix) ==
    /\ Len(suffix) <= Len(s)
    /\ SubSeq(s, Len(s) - Len(suffix) + 1, Len(s)) = suffix

\* the healthUrl isUrlReachable requests for url
healthUrlOf(url) ==
    IF endsWith(url, "/api") THEN url \o "/health" ELSE url \o "/api/health"

\* URLs isUrlReachable is called with: candidates, and a persisted URL
\* that does not end in /api
ProbeUrls ==
    { "http://localhost:3000/api", "http://10.0.2.2:3000/api",
      "https://api.taskflick.app" }

\* isUrlReachable once response.json() has thrown out of the function
afterJsonUncaught(p, parsed) ==
    IF parsed
    THEN [p EXCEPT !.pc = "returned", !.body = "parsed", !.ended = "body",
                   !.verdict = "true"]
    ELSE [p EXCEPT !.pc = "threw", !.body = "failed", !.ended = "body"]

\* isUrlReachable once response.json() has settled: true when the body
\* parsed, the catch block's false when it rejected
afterJson(p, parsed) ==
    IF parsed
    THEN [p EXCEPT !.pc = "returned", !.body = "parsed", !.ended = "body",
                   !.verdict = "true"]
    ELSE [p EXCEPT !.pc = "returned", !.body = "failed", !.ended = "body",
                   !.verdict = "false"]

InitProbe ==
    /\ GatewayAtRest
    /\ AppAtRest
    /\ working_backend_url = null
    /\ LocatorAtRest

\* isUrlReachable(url) runs to its first await: the timer is set and the
\* health request sent
ProbeStart ==
    /\ probe.pc \in {"idle", "returned"}
    /\ \E url \in ProbeUrls :
        probe' = [NoProbe EXCEPT !.pc = "fetching", !.url = url,
                                 !.healthUrl = healthUrlOf(url),
                                 !.startedAt = now, !.timer = "armed"]
    /\ UNCHANGED << appVars, gatewayVars, working_backend_url, environment, listed, runs,
                    locatorLog >>

\* fetch resolves with the status line and headers: the timer is cleared,
\* and the function returns false or goes on to await response.json()
HealthResponse ==
    /\ probe.pc = "fetching"
    /\ \E ok \in BOOLEAN :
        probe' = IF ok
                 THEN [probe EXCEPT !.pc = "reading", !.timer = "cleared",
                                    !.status = "ok"]
                 ELSE [probe EXCEPT !.pc = "returned", !.timer = "cleared",
                                    !.status = "not ok", !.ended = "status",
                                    !.verdict = "false"]
    /\ UNCHANGED << appVars, gatewayVars, working_backend_url, environment, listed, runs,
                    locatorLog >>

\* fetch rejects with a network error: the catch block returns false and
\* the timer stays set
HealthNetworkError ==
    /\ probe.pc = "fetching"
    /\ probe' = [probe EXCEPT !.pc = "returned", !.ended = "network error",
                              !.verdict = "false"]
    /\ UNCHANGED << appVars, gatewayVars, working_backend_url, environment, listed, runs,
                    locatorLog >>

\* the timer fires: controller.abort() rejects a fetch still pending, and
\* does nothing to a call that has returned
TimerFires ==
    /\ probe.timer = "armed"
    /\ now - probe.startedAt >= TimeoutMs
    /\ probe' = IF probe.pc = "fetching"
                THEN [probe EXCEPT !.pc = "returned", !.timer = "fired",
                                   !.ended = "abort", !.verdict = "false"]
                ELSE [probe EXCEPT !.timer = "fired"]
    /\ UNCHANGED << appVars, gatewayVars, working_backend_url, environment, listed, runs,
                    locatorLog >>

\* response.json() settles: the body arrived and parsed, or reading or
\* parsing it failed
HealthBody ==
    /\ probe.pc = "reading"
    /\ \E parsed \in BOOLEAN : probe' = afterJson(probe, parsed)
    /\ UNCHANGED << appVars, gatewayVars, working_backend_url, environment, listed, runs,
                    locatorLog >>

\* time passes while nothing arrives; a timer that is due fires first
ProbeTick ==
    /\ now < ProbeClockEnd
    /\ ~(probe.timer = "armed" /\ now - probe.startedAt >= TimeoutMs)
    /\ now' = now + HalfTimeout
    /\ UNCHANGED << appVars, USE_BACKEND_GENERATION, discoveredBackendUrl, startup,
                    cache, online, calls, working_backend_url, locatorVars >>

NextProbe ==
    \/ ProbeStart
    \/ HealthResponse
    \/ HealthNetworkError
    \/ TimerFires
    \/ HealthBody
    \/ ProbeTick

SpecProbe == InitProbe /\ [][NextProbe]_vars

\* ---------------------------------------------------------------- discovery
\* discoverBackendUrl followed from await to await.  isUrlReachable is one
\* await of it and touches no shared state, so each health check settles
\* in one step with its verdict.

\* a URL persisted by an earlier session under another configuration
StaleUrl == "http://192.168.1.23:3000/api"

\* what AsyncStorage holds under working_backend_url when the app starts
PersistedAtStart == {null, StaleUrl}

\* the environment discovery runs in: no configured URL, the Android
\* emulator, a dev server on localhost
LocatorEnvironment ==
    [ configuredUrl |-> "", OS |-> "android",
      Constants |-> [ object |-> TRUE,
                      expoConfigHostUri |-> << "localhost", ":", "8081" >>,
                      manifest |-> NoManifest ] ]

\* the health checks of the for loop a run has had settled
IsCandidateProbe(e) == e.kind = "candidate"

candidateProbes(r) == SelectSeq(r.probed, IsCandidateProbe)

\* a run at rest: not called, or ended
AtRest(r) == r.pc \in {"idle", "returned", "threw"}

\* lines 109-114 with a cached URL that is returned whatever the verdict
afterCachedProbeTrusting(r, verdict) ==
    [ r EXCEPT !.probed = Append(@, [url |-> r.cachedUrl, verdict |-> verdict,
                                     kind |-> "cached"]),
               !.pc = "returned",
               !.result = r.cachedUrl ]

\* lines 109-114: the health check of the cached URL has settled
afterCachedProbe(r, verdict) ==
    [ r EXCEPT !.probed = Append(@, [url |-> r.cachedUrl, verdict |-> verdict,
                                     kind |-> "cached"]),
               !.pc = IF verdict THEN "returned" ELSE "netInfo",
               !.result = IF verdict THEN r.cachedUrl ELSE null ]

\* lines 121-131 with the connectivity report left unread
afterNetInfoUnread(r, outcome, env) ==
    IF outcome = "rejected"
    THEN [ r EXCEPT !.netInfo = outcome, !.pc = "threw" ]
    ELSE [ r EXCEPT !.netInfo = outcome, !.pc = "probing",
                    !.urls = getPossibleServerUrls(env) ]

\* lines 121-131: NetInfo.fetch() has settled.  The await is outside any
\* try: a rejection leaves discoverBackendUrl as an exception
afterNetInfo(r, outcome, env) ==
    IF outcome = "rejected"
    THEN [ r EXCEPT !.netInfo = outcome, !.pc = "threw" ]
    ELSE IF outcome = "disconnected"
    THEN [ r EXCEPT !.netInfo = outcome, !.pc = "returned", !.result = null ]
    ELSE [ r EXCEPT !.netInfo = outcome, !.pc = "probing",
                    !.urls = getPossibleServerUrls(env) ]

\* lines 131-146 with a loop that ends at the first failed health check
afterCandidateProbeGivingUp(r, verdict) ==
    LET i == Len(candidateProbes(r)) + 1
        probed == Append(r.probed, [url |-> r.urls[i], verdict |-> verdict,
                                    kind |-> "candidate"])
    IN IF verdict
       THEN [ r EXCEPT !.probed = probed, !.pc = "setItem" ]
       ELSE [ r EXCEPT !.probed = probed, !.pc = "returned", !.result = null ]

\* lines 131-146: the health check of the next candidate has settled
afterCandidateProbe(r, verdict) ==
    LET i == Len(candidateProbes(r)) + 1
        probed == Append(r.probed, [url |-> r.urls[i], verdict |-> verdict,
                                    kind |-> "candidate"])
    IN IF verdict
       THEN [ r EXCEPT !.probed = probed, !.pc = "setItem" ]
       ELSE IF i < Len(r.urls)
       THEN [ r EXCEPT !.probed = probed ]
       ELSE [ r EXCEPT !.probed = probed, !.pc = "returned", !.result = null ]

\* the URL line 137 stores with a loop variable read from the list head
urlToCacheFirstListed(r) == r.urls[1]

\* the URL line 137 stores: the candidate whose health check just passed
urlToCache(r) == r.probed[Len(r.probed)].url

\* the log once url has had a health check settled with verdict
Probed(log, url, verdict) ==
    IF verdict
    THEN [ log EXCEPT !.passed = @ \cup {url}, !.lastPassed = url ]
    ELSE log

InitLocator ==
    /\ GatewayAtRest
    /\ AppAtRest
    /\ working_backend_url \in PersistedAtStart
    /\ environment = LocatorEnvironment
    /\ listed = NotListed
    /\ probe = NoProbe
    /\ runs = [k \in Runners |-> NoRun]
    /\ locatorLog = NoLog

\* discoverBackendUrl() is called and runs to the await of getItem; with
\* alone, only while no other run is under way
Invoke(k, again, alone) ==
    /\ runs[k].pc \in (IF again THEN {"idle", "returned", "threw"} ELSE {"idle"})
    /\ alone => \A j \in Runners : AtRest(runs[j])
    /\ runs' = [runs EXCEPT ![k] = [NoRun EXCEPT !.pc = "getItem"]]
    /\ UNCHANGED << appVars, gatewayVars, working_backend_url, environment, listed, probe,
                    locatorLog >>

\* AsyncStorage.getItem('working_backend_url') settles
GetItemSettles(k) ==
    LET r == runs[k] IN
    /\ r.pc = "getItem"
    /\ \E fails \in BOOLEAN :
        /\ runs' = [runs EXCEPT ![k] =
               IF fails
               THEN [r EXCEPT !.readFailed = TRUE, !.pc = "netInfo"]
               ELSE IF working_backend_url # null
               THEN [r EXCEPT !.cachedUrl = working_backend_url,
                              !.pc = "probeCached"]
               ELSE [r EXCEPT !.pc = "netInfo"]]
        /\ locatorLog' = [locatorLog EXCEPT !.storageFailed = @ \/ fails]
    /\ UNCHANGED << appVars, gatewayVars, working_backend_url, environment, listed, probe >>

\* isUrlReachable(cachedUrl) settles in a locator that removes the
\* persisted URL when its health check fails
CachedProbeSettlesInvalidating(k) ==
    LET r == runs[k] IN
    /\ r.pc = "probeCached"
    /\ \E verdict \in BOOLEAN :
        /\ runs' = [runs EXCEPT ![k] = afterCachedProbe(r, verdict)]
        /\ locatorLog' = Probed(locatorLog, r.cachedUrl, verdict)
        /\ working_backend_url' = IF verdict THEN working_backend_url ELSE null
    /\ UNCHANGED << appVars, gatewayVars, environment, listed, probe >>

\* isUrlReachable(cachedUrl) settles
CachedProbeSettles(k) ==
    LET r == runs[k] IN
    /\ r.pc = "probeCached"
    /\ \E verdict \in BOOLEAN :
        /\ runs' = [runs EXCEPT ![k] = afterCachedProbe(r, verdict)]
        /\ locatorLog' = Probed(locatorLog, r.cachedUrl, verdict)
    /\ UNCHANGED << appVars, gatewayVars, working_backend_url, environment, listed, probe >>

\* NetInfo.fetch() settles
NetInfoSettles(k) ==
    LET r == runs[k] IN
    /\ r.pc = "netInfo"
    /\ \E outcome \in NetInfoOutcomes :
        runs' = [runs EXCEPT ![k] = afterNetInfo(r, outcome, environment)]
    /\ UNCHANGED << appVars, gatewayVars, working_backend_url, environment, listed, probe,
                    locatorLog >>

\* isUrlReachable(url) settles for the candidate the loop is at
CandidateProbeSettles(k) ==
    LET r == runs[k] IN
    /\ r.pc = "probing"
    /\ \E verdict \in BOOLEAN :
        /\ runs' = [runs EXCEPT ![k] = afterCandidateProbe(r, verdict)]
        /\ locatorLog' = Probed(locatorLog,
                                r.urls[Len(candidateProbes(r)) + 1], verdict)
    /\ UNCHANGED << appVars, gatewayVars, working_backend_url, environment, listed, probe >>

\* AsyncStorage.setItem('working_backend_url', url) settles and the run
\* returns url
SetItemSettles(k) ==
    LET r == runs[k]
        url == urlToCache(r)
    IN
    /\ r.pc = "setItem"
    /\ \E fails \in BOOLEAN :
        /\ working_backend_url' = IF fails THEN working_backend_url ELSE url
        /\ runs' = [runs EXCEPT ![k] =
               [r EXCEPT !.pc = "returned",
                         !.result = r.probed[Len(r.probed)].url,
                         !.wrote = IF fails THEN null ELSE url,
                         !.writeFailed = fails]]
        /\ locatorLog' = [locatorLog EXCEPT
               !.lastWriter = IF fails THEN @ ELSE k,
               !.storageFailed = @ \/ fails]
    /\ UNCHANGED << appVars, gatewayVars, environment, listed, probe >>

\* two runs of discoverBackendUrl, one per runner, interleaved at their
\* awaits
NextLocator ==
    \/ \E k \in Runners : Invoke(k, FALSE, FALSE)
    \/ \E k \in Runners : GetItemSettles(k)
    \/ \E k \in Runners : CachedProbeSettles(k)
    \/ \E k \in Runners : NetInfoSettles(k)
    \/ \E k \in Runners : CandidateProbeSettles(k)
    \/ \E k \in Runners : SetItemSettles(k)

SpecLocator == InitLocator /\ [][NextLocator]_vars

\* runs of discoverBackendUrl one after the other, without end
NextLocatorSequence ==
    \/ \E k \in Runners : Invoke(k, TRUE, TRUE)
    \/ \E k \in Runners : GetItemSettles(k)
    \/ \E k \in Runners : CachedProbeSettles(k)
    \/ \E k \in Runners : NetInfoSettles(k)
    \/ \E k \in Runners : CandidateProbeSettles(k)
    \/ \E k \in Runners : SetItemSettles(k)

SpecLocatorSequence == InitLocator /\ [][NextLocatorSequence]_vars

\* ---------------------------------------------------------- badge fallback

\* a string as the sequence of its characters
Chars(str) == [ i \in 1..Len(str) |-> SubSeq(str, i, i) ]

\* typeMappings of determineIconType, in the order of Object.entries
typeMappings ==
    << [type |-> "streak", icon |-> "flame"],
       [type |-> "quest", icon |-> "scroll"],
       [type |-> "completion", icon |-> "trophy"],
       [type |-> "daily", icon |-> "calendar"],
       [type |-> "speed", icon |-> "lightning"],
       [type |-> "first", icon |-> "star"],
       [type |-> "consistent", icon |-> "medal"],
       [type |-> "master", icon |-> "crown"] >>

\* nameKeywords of determineIconType, in the order of Object.entries
nameKeywords ==
    << [icon |-> "flame", keywords |-> {"flame", "fire", "burning", "blaze"}],
       [icon |-> "crown",
        keywords |-> {"king", "queen", "royal", "crown", "ruler", "sovereign"}],
       [icon |-> "scroll",
        keywords |-> {"knowledge", "wisdom", "scroll", "book", "tome"}],
       [icon |-> "shield",
        keywords |-> {"shield", "protect", "defend", "guard", "bastion"}],
       [icon |-> "gem",
        keywords |-> {"gem", "jewel", "diamond", "ruby", "emerald", "sapphire"}],
       [icon |-> "sword",
        keywords |-> {"sword", "blade", "warrior", "knight", "battle"}],
       [icon |-> "trophy",
        keywords |-> {"champion", "victory", "triumph", "winner", "conqueror"}],
       [icon |-> "medal", keywords |-> {"medal", "honor", "prestige", "distinction"}],
       [icon |-> "star", keywords |-> {"star", "celestial", "cosmic", "astral"}],
       [icon |-> "lightning",
        keywords |-> {"lightning", "thunder", "storm", "swift", "quick", "fast"}],
       [icon |-> "calendar",
        keywords |-> {"time", "day", "week", "daily", "calendar"}] >>

\* the least element of a non-empty set of numbers
Least(S) == CHOOSE i \in S : \A j \in S : i <= j

\* determineIconType(achievementType, badgeName) of the backend: the first
\* type keyword the achievement type contains, else the first icon one of
\* whose keywords the badge name contains, else the defaults by type
determineIconType(achievementType, badgeName) ==
    LET typeLower == toLowerCase(Chars(achievementType))
        nameLower == toLowerCase(Chars(badgeName))
        typeHits == { i \in 1..Len(typeMappings) :
                        includes(typeLower, Chars(typeMappings[i].type)) }
        nameHits == { i \in 1..Len(nameKeywords) :
                        \E keyword \in nameKeywords[i].keywords :
                            includes(nameLower, Chars(keyword)) }
    IN IF typeHits # {} THEN typeMappings[Least(typeHits)].icon
       ELSE IF nameHits # {} THEN nameKeywords[Least(nameHits)].icon
       ELSE IF includes(typeLower, Chars("complete")) THEN "trophy"
       ELSE IF includes(typeLower, Chars("day")) THEN "calendar"
       ELSE IF includes(typeLower, Chars("quest")) THEN "scroll"
       ELSE IF includes(typeLower, Chars("point")) THEN "gem"
       ELSE "medal"

\* achievement types: the keys of the client's table and types it lacks
AchievementTypes ==
    DOMAIN defaultBadges
    \cup { "Streak Legend", "Night Owl", "Speed Runner", "Royal Guard",
           "Daily Devotee", "Early Bird" }

\* milestone values
Milestones == {1, 3, 5, 7, 10, 25, 100, 500}

InitBadge ==
    /\ GatewayAtRest
    /\ working_backend_url = null
    /\ LocatorAtRest
    /\ badgeCall \in { [NoBadge EXCEPT !.achievementType = t, !.milestone = m] :
                         t \in AchievementTypes, m \in Milestones }
    /\ TasksAtRest
    /\ TokenAtRest
    /\ FormAtRest

\* the client's fallbackGenerateAchievementBadge is called and returns
GenerateFallbackBadge ==
    /\ ~badgeCall.computed
    /\ badgeCall' =
         [badgeCall EXCEPT
            !.computed = TRUE,
            !.result = fallbackGenerateAchievementBadge(badgeCall.achievementType,
                                                        badgeCall.milestone)]
    /\ UNCHANGED << gatewayVars, working_backend_url, locatorVars, taskVars,
                    authVars, formVars >>

NextBadge == GenerateFallbackBadge

SpecBadge == InitBadge /\ [][NextBadge]_vars

\* ---------------------------------------------------------- task completion

\* the number of tasks in the list
NumTasks == 2

\* the last calendar day the device clock reaches
LastDay == 2

\* the difficulties of the tasks: the three the code names and one it
\* does not
Difficulties == << "mini", "normal", "boss", "epic" >>

\* the ids completeTask is called with: those of the list and one that is
\* not in it
TaskIds == 1..(NumTasks + 1)

\* the instants of the device clock
DeviceInstants == [date : 0..LastDay, part : {"am", "pm"}]

\* instant a is before instant b
Before(a, b) ==
    \/ a.date < b.date
    \/ a.date = b.date /\ a.part = "am" /\ b.part = "pm"

\* now.toISOString(): the string keeps the whole instant
toISOString(instant) ==
    [type |-> "date", date |-> instant.date, part |-> instant.part]

\* new Date(value) followed by setHours(0, 0, 0, 0): the start of the
\* calendar day of the instant, as a day number
startOfDay(value) == value.date

\* tasks.findIndex(task => task.id === taskId), 0 standing for -1
findIndex(list, taskId) ==
    IF \E i \in 1..Len(list) : list[i].id = taskId
    THEN Least({ i \in 1..Len(list) : list[i].id = taskId })
    ELSE 0

\* a points table whose default branch earns nothing
pointsEarnedKnownOnly(difficulty) ==
    CASE difficulty = "mini" -> 10
      [] difficulty = "boss" -> 50
      [] difficulty = "normal" -> 25
      [] OTHER -> 0

\* the switch on task.difficulty
pointsEarned(difficulty) ==
    CASE difficulty = "mini" -> 10
      [] difficulty = "boss" -> 50
      [] OTHER -> 25

\* the streak update of completeTask at the instant current
updateStreak(stats, current) ==
    LET today == startOfDay(current)
        yesterday == today - 1
    IN
    IF stats.lastCompletedDate # JsonNull
    THEN LET lastDate == startOfDay(stats.lastCompletedDate) IN
         IF lastDate = yesterday \/ lastDate = today
         THEN stats.currentStreak + 1
         ELSE IF lastDate < yesterday THEN 1 ELSE stats.currentStreak
    ELSE 1

\* the badges checkAndAddAchievements looks at, in the order of its checks
achievementBadges ==
    << "First Quest", "Quest Novice", "Quest Adept", "Quest Master",
       "Consistent Adventurer", "Weekly Warrior", "Point Collector",
       "XP Hunter" >>

\* the condition checkAndAddAchievements tests for a badge
achievementReached(stats, badge) ==
    CASE badge = "First Quest" -> stats.completedQuests = 1
      [] badge = "Quest Novice" -> stats.completedQuests = 5
      [] badge = "Quest Adept" -> stats.completedQuests = 10
      [] badge = "Quest Master" -> stats.completedQuests = 25
      [] badge = "Consistent Adventurer" -> stats.currentStreak = 3
      [] badge = "Weekly Warrior" -> stats.currentStreak = 7
      [] badge = "Point Collector" -> stats.points >= 100
      [] badge = "XP Hunter" -> stats.points >= 500
      [] OTHER -> FALSE

\* existingBadges after the first n checks: a Set keeps each value once,
\* in insertion order
RECURSIVE existingBadges(_, _)
existingBadges(stats, n) ==
    IF n = 0 THEN spreadOfSet(stats.badges)
    ELSE LET sofar == existingBadges(stats, n - 1)
             badge == achievementBadges[n]
         IN IF achievementReached(stats, badge) /\ badge \notin Elements(sofar)
            THEN Append(sofar, badge)
            ELSE sofar

\* checkAndAddAchievements(stats): a copy of stats with the badges added;
\* stats itself is left as it is
checkAndAddAchievements(stats) ==
    [stats EXCEPT !.badges = existingBadges(stats, Len(achievementBadges))]

\* the lists of tasks the provider holds when completing starts: none
\* completed yet, their difficulties following one another from any first
\* one. Of a task the id, the difficulty and completed are kept;
\* completedAt, which the provider never reads back, is left out
TaskLists ==
    { [i \in 1..NumTasks |->
         [id |-> i,
          difficulty |-> Difficulties[((first + i - 2) % Len(Difficulties)) + 1],
          completed |-> FALSE]] :
      first \in 1..Len(Difficulties) }

InitTasks ==
    /\ GatewayAtRest
    /\ working_backend_url = null
    /\ LocatorAtRest
    /\ badgeCall = NoBadge
    /\ TokenAtRest
    /\ FormAtRest
    /\ tasks \in TaskLists
    /\ userStats = InitialStats
    /\ completions = [k \in Runners |-> NoCompletion]
    /\ deviceNow = FirstInstant

\* completeTask(taskId) runs up to its await: it copies the tasks and the
\* userStats of the render it was created in and updates the copies
CompleteTask(k, taskId) ==
    LET taskIndex == findIndex(tasks, taskId) IN
    /\ completions[k].pc \in {"idle", "done"}
    /\ completions' = [completions EXCEPT ![k] =
         IF taskIndex # 0 /\ ~tasks[taskIndex].completed
         THEN LET task == tasks[taskIndex]
                  streak == updateStreak(userStats, deviceNow)
              IN [ pc |-> "checking", taskId |-> taskId, read |-> userStats,
                   updatedTasks |->
                       [tasks EXCEPT ![taskIndex] =
                           [task EXCEPT !.completed = TRUE]],
                   updatedStats |->
                       [userStats EXCEPT
                           !.points = @ + pointsEarned(task.difficulty),
                           !.completedQuests = @ + 1,
                           !.currentStreak = streak,
                           !.longestStreak = IF streak > @ THEN streak ELSE @,
                           !.lastCompletedDate = toISOString(deviceNow)],
                   checked |-> << >> ]
         ELSE [NoCompletion EXCEPT !.pc = "done", !.taskId = taskId]]
    /\ UNCHANGED << gatewayVars, working_backend_url, locatorVars, badgeCall,
                    tasks, userStats, deviceNow, authVars, formVars >>

\* await checkAndAddAchievements(updatedStats) settles: its return value
\* is dropped (checked keeps the badges it held), and setTasks and
\* setUserStats store the call's copies
AchievementsChecked(k) ==
    /\ completions[k].pc = "checking"
    /\ tasks' = completions[k].updatedTasks
    /\ userStats' = completions[k].updatedStats
    /\ completions' = [completions EXCEPT ![k] =
         [NoCompletion EXCEPT
            !.pc = "done",
            !.taskId = completions[k].taskId,
            !.checked = checkAndAddAchievements(completions[k].updatedStats).badges]]
    /\ UNCHANGED << gatewayVars, working_backend_url, locatorVars, badgeCall,
                    deviceNow, authVars, formVars >>

\* time passes on the device
DeviceClockAdvances ==
    /\ \E later \in DeviceInstants :
        /\ Before(deviceNow, later)
        /\ deviceNow' = later
    /\ UNCHANGED << gatewayVars, working_backend_url, locatorVars, badgeCall,
                    tasks, userStats, completions, authVars, formVars >>

NextTasks ==
    \/ \E k \in Runners, taskId \in TaskIds : CompleteTask(k, taskId)
    \/ \E k \in Runners : AchievementsChecked(k)
    \/ DeviceClockAdvances

SpecTasks == InitTasks /\ [][NextTasks]_vars

\* --------------------------------------------------------------- IBM token

\* the 5 minutes getIBMToken takes off a token's lifetime, in seconds
SafetyMargin == 300

\* the step of the backend clock, in milliseconds
TokenClockStep == SafetyMargin * 1000

\* the instant the backend clock stops at
TokenClockEnd == 4 * TokenClockStep

\* the access tokens the provider issues
AccessTokens == {"token-a", "token-b"}

\* the lifetimes the provider answers with, in seconds: the margin itself
\* and lifetimes one and two clock steps longer
ExpiresInValues == {SafetyMargin, 2 * SafetyMargin, 3 * SafetyMargin}

\* tokenCache.token && currentTime < tokenCache.expiresAt
cacheIsValid(cached, currentTime) ==
    /\ cached.token # null
    /\ cached.token # ""
    /\ currentTime < cached.expiresAt

InitToken ==
    /\ GatewayAtRest
    /\ working_backend_url = null
    /\ LocatorAtRest
    /\ badgeCall = NoBadge
    /\ TasksAtRest
    /\ FormAtRest
    /\ tokenCache = EmptyTokenCache
    /\ tokenCalls = [k \in Runners |-> NoTokenCall]
    /\ clock = 0
    /\ tokenLog = [reset |-> FALSE]

\* getIBMToken() runs up to its return of the cached token or up to the
\* await of the token request
GetIBMToken(k) ==
    /\ tokenCalls[k].pc # "requesting"
    /\ tokenCalls' = [tokenCalls EXCEPT ![k] =
         IF cacheIsValid(tokenCache, clock)
         THEN [NoTokenCall EXCEPT !.pc = "returned", !.currentTime = clock,
                                  !.result = tokenCache.token]
         ELSE [NoTokenCall EXCEPT !.pc = "requesting", !.currentTime = clock,
                                  !.requested = TRUE]]
    /\ tokenLog' = [reset |-> FALSE]
    /\ UNCHANGED << gatewayVars, working_backend_url, locatorVars, badgeCall,
                    taskVars, formVars, tokenCache, clock >>

\* the token request of call k is answered: the fields of the object
\* tokenCache names at that moment are set
TokenResponse(k) ==
    /\ tokenCalls[k].pc = "requesting"
    /\ \E access_token \in AccessTokens, expires_in \in ExpiresInValues :
        /\ tokenCache' =
             [ token |-> access_token,
               expiresAt |-> tokenCalls[k].currentTime
                             + (expires_in - SafetyMargin) * 1000 ]
        /\ tokenCalls' = [tokenCalls EXCEPT ![k] =
             [@ EXCEPT !.pc = "returned", !.expiresIn = expires_in,
                       !.result = access_token]]
    /\ UNCHANGED << gatewayVars, working_backend_url, locatorVars, badgeCall,
                    taskVars, formVars, clock, tokenLog >>

\* the token request of call k fails: the catch block throws
TokenRequestFails(k) ==
    /\ tokenCalls[k].pc = "requesting"
    /\ tokenCalls' = [tokenCalls EXCEPT ![k] = [@ EXCEPT !.pc = "raised"]]
    /\ UNCHANGED << gatewayVars, working_backend_url, locatorVars, badgeCall,
                    taskVars, formVars, tokenCache, clock, tokenLog >>

\* resetTokenCache()
ResetTokenCache ==
    /\ tokenCache' = EmptyTokenCache
    /\ tokenLog' = [reset |-> TRUE]
    /\ UNCHANGED << gatewayVars, working_backend_url, locatorVars, badgeCall,
                    taskVars, formVars, tokenCalls, clock >>

\* time passes on the backend
BackendClockAdvances ==
    /\ clock < TokenClockEnd
    /\ clock' = clock + TokenClockStep
    /\ UNCHANGED << gatewayVars, working_backend_url, locatorVars, badgeCall,
                    taskVars, formVars, tokenCache, tokenCalls, tokenLog >>

NextToken ==
    \/ \E k \in Runners : GetIBMToken(k)
    \/ \E k \in Runners : TokenResponse(k)
    \/ \E k \in Runners : TokenRequestFails(k)
    \/ ResetTokenCache
    \/ BackendClockAdvances

SpecToken == InitToken /\ [][NextToken]_vars

\* ---------------------------------------------------------- add-quest form

\* the delay of the timer that releases submitLock, in milliseconds
ReleaseDelay == 1000

\* the step of the time that passes while timers are pending
HalfDelay == ReleaseDelay \div 2

\* the number of handleCreateQuest invocations followed
MaxInvocations == 4

InitForm ==
    /\ GatewayAtRest
    /\ working_backend_url = null
    /\ LocatorAtRest
    /\ badgeCall = NoBadge
    /\ TasksAtRest
    /\ TokenAtRest
    /\ submitLock = FALSE
    /\ form = IdleForm

\* the user edits the fields: validate() would pass or fail
EditForm ==
    /\ form' = [form EXCEPT !.valid = ~@]
    /\ UNCHANGED << gatewayVars, working_backend_url, locatorVars, badgeCall,
                    taskVars, authVars, submitLock >>

\* a handleCreateQuest that looks at isSubmitting alone
HandleCreateQuestUnlocked ==
    /\ form.invocations < MaxInvocations
    /\ IF form.isSubmitting
       THEN /\ form' = [form EXCEPT !.invocations = @ + 1, !.ignored = @ + 1]
            /\ UNCHANGED submitLock
       ELSE IF ~form.valid
       THEN /\ form' = [form EXCEPT !.invocations = @ + 1]
            /\ UNCHANGED submitLock
       ELSE /\ form' = [form EXCEPT !.invocations = @ + 1,
                                    !.isSubmitting = TRUE,
                                    !.addTaskCalls = @ + 1,
                                    !.inFlight = @ + 1]
            /\ submitLock' = TRUE
    /\ UNCHANGED << gatewayVars, working_backend_url, locatorVars, badgeCall,
                    taskVars, authVars >>

\* handleCreateQuest() runs up to a return or up to the await of addTask
HandleCreateQuest ==
    /\ form.invocations < MaxInvocations
    /\ IF submitLock \/ form.isSubmitting
       THEN /\ form' = [form EXCEPT !.invocations = @ + 1, !.ignored = @ + 1]
            /\ UNCHANGED submitLock
       ELSE IF ~form.valid
       THEN /\ form' = [form EXCEPT !.invocations = @ + 1]
            /\ UNCHANGED submitLock
       ELSE /\ form' = [form EXCEPT !.invocations = @ + 1,
                                    !.isSubmitting = TRUE,
                                    !.addTaskCalls = @ + 1,
                                    !.inFlight = @ + 1]
            /\ submitLock' = TRUE
    /\ UNCHANGED << gatewayVars, working_backend_url, locatorVars, badgeCall,
                    taskVars, authVars >>

\* await addTask(...) settles: resolved, the fields are emptied; rejected,
\* the catch block alerts; the finally block clears isSubmitting and sets
\* the timer that releases the lock
AddTaskSettles ==
    /\ form.inFlight > 0
    /\ \E resolved \in BOOLEAN :
        form' = [form EXCEPT !.inFlight = @ - 1,
                             !.isSubmitting = FALSE,
                             !.valid = IF resolved THEN FALSE ELSE @,
                             !.timers = Append(@, ReleaseDelay)]
    /\ UNCHANGED << gatewayVars, working_backend_url, locatorVars, badgeCall,
                    taskVars, authVars, submitLock >>

\* time passes while timers are pending and none of them is due
TimePasses ==
    /\ form.timers # << >>
    /\ \A i \in 1..Len(form.timers) : form.timers[i] > 0
    /\ form' = [form EXCEPT !.timers =
                   [i \in 1..Len(form.timers) |-> form.timers[i] - HalfDelay]]
    /\ UNCHANGED << gatewayVars, working_backend_url, locatorVars, badgeCall,
                    taskVars, authVars, submitLock >>

\* the timer set first is due and runs: submitLock.current = false
ReleaseTimerFires ==
    /\ form.timers # << >>
    /\ form.timers[1] = 0
    /\ submitLock' = FALSE
    /\ form' = [form EXCEPT !.timers = Tail(@)]
    /\ UNCHANGED << gatewayVars, working_backend_url, locatorVars, badgeCall,
                    taskVars, authVars >>

NextForm ==
    \/ EditForm
    \/ HandleCreateQuest
    \/ AddTaskSettles
    \/ TimePasses
    \/ ReleaseTimerFires

\* the form with a running event loop: time passes and a due timer runs
SpecForm ==
    /\ InitForm
    /\ [][NextForm]_vars
    /\ WF_vars(TimePasses)
    /\ WF_vars(ReleaseTimerFires)

\* ------------------------------------------------------------- properties

Done(c) == calls[c].pc = "done"

\* the provenance flag of a result
Flag(result) == Get(result, "isAIGenerated")

\* the ways the generation request itself fails
RequestFailures == {"network_error", "not_ok", "parse_error"}

\* the data callApi returned to a call that did not fall back
RemoteData(rec) ==
    IF rec.source = "cache" THEN rec.response ELSE extractResponseData(rec.response)

\* the call of caller c settles in this step
Settles(c) == calls'[c].pc = "done" /\ calls'[c] # calls[c]

\* C1: whatever the remote steps come to (generation disabled, no backend
\* found, discovery failing, a network error, a non-success status, an
\* unparsable or unusable body, a storage error), each of the three gateway
\* operations ends by returning a result; none throws to its caller.
C1_OperationsNeverThrow ==
    \A c \in Callers :
        /\ calls[c].outcome # "threw"
        /\ Done(c) => calls[c].outcome = "returned"

\* a transform-task call that lost its request to a network error and
\* still returned
C1_Witness ==
    \E c \in Callers :
        /\ Done(c)
        /\ calls[c].op = "transform-task"
        /\ calls[c].reason = "network_error"
        /\ calls[c].outcome = "returned"

\* C2: with remote generation disabled, all three operations return a
\* fallback result (provenance flag false) and the gateway module issues no
\* HTTP request, neither a health probe nor a generation request.
C2_DisabledIssuesNoRequest ==
    ~USE_BACKEND_GENERATION =>
        /\ ~startup.probed
        /\ \A c \in Callers :
            /\ calls[c].probes = 0
            /\ calls[c].requests = 0
            /\ Done(c) => calls[c].source = "fallback"
            /\ Done(c) /\ calls[c].op # "motivational-message"
                  => Flag(calls[c].result) = JsonBool(FALSE)

\* C3: a cache read that finds an entry younger than the TTL returns the
\* entry (no locator run, no request); one that finds an entry of age TTL
\* or more is a miss and goes on to the remote attempt.
C3_ExpiryDecidesCacheRead ==
    \A c \in Callers :
        LET rec == calls[c] IN
        rec.cacheRead \in {"hit", "expired"} =>
            /\ rec.readAge < CACHE_EXPIRY =>
                  /\ rec.cacheRead = "hit"
                  /\ rec.pc = "done"
                  /\ rec.source = "cache"
                  /\ rec.locatorRuns + rec.requests = 0
            /\ rec.readAge >= CACHE_EXPIRY =>
                  /\ rec.cacheRead = "expired"
                  /\ rec.source # "cache"
                  /\ rec.locatorRuns + rec.requests >= 1

\* a read at T + 24h01m missed and the generation request was sent
C3_Witness ==
    \E c \in Callers :
        /\ calls[c].cacheRead = "expired"
        /\ calls[c].readAge = CACHE_EXPIRY + OneMinute
        /\ calls[c].requests = 1

\* C4 as stated: when the transform-task request fails, the result is an
\* object with the provenance flag false whose questNarrative contains the
\* task name.
C4_NarrativeContainsTaskName ==
    \A c \in Callers :
        LET rec == calls[c] IN
        Done(c) /\ rec.op = "transform-task" /\ rec.reason \in RequestFailures =>
            /\ rec.result.type = "object"
            /\ Flag(rec.result) = JsonBool(FALSE)
            /\ Get(rec.result, "questNarrative").type = "string"
            /\ includes(Get(rec.result, "questNarrative").v, rec.args.taskTitle)

\* C4 amended: when the transform-task request fails, the result is an
\* object with the provenance flag false, its questTitle contains the
\* task name with its first letter in upper case, and its questNarrative is
\* the sentence of the category followed by the sentence of the difficulty,
\* without the task name.
C4_TitleContainsCapitalizedTaskName ==
    \A c \in Callers :
        LET rec == calls[c]
            name == << toUpperCase(Head(rec.args.taskTitle)) >>
                        \o Tail(rec.args.taskTitle)
        IN
        Done(c) /\ rec.op = "transform-task" /\ rec.reason \in RequestFailures =>
            /\ rec.result.type = "object"
            /\ Flag(rec.result) = JsonBool(FALSE)
            /\ Get(rec.result, "questTitle").type = "string"
            /\ includes(Get(rec.result, "questTitle").v, name)
            /\ Get(rec.result, "questNarrative").type = "string"
            /\ \E i \in 1..Len(categoryNarratives) :
                 \E d \in DOMAIN difficultyModifiers :
                    Get(rec.result, "questNarrative").v =
                        categoryNarratives[i] \o difficultyModifiers[d]

\* a transform-task call whose request got a non-success status
C4_Witness ==
    \E c \in Callers :
        /\ Done(c)
        /\ calls[c].op = "transform-task"
        /\ calls[c].reason = "not_ok"
        /\ calls[c].source = "fallback"

\* C5: every result of transformTaskToQuest and generateAchievementBadge
\* carries the provenance flag; it is true exactly when the content fields
\* are those of the remote data (fresh or cached) and false exactly when
\* they are those of the local fallback generator.
C5_FlagTellsProvenance ==
    \A c \in Callers :
        LET rec == calls[c]
            res == rec.result
            fromRemote ==
                /\ rec.source \in {"remote", "cache"}
                /\ IF rec.op = "transform-task"
                   THEN /\ Get(res, "questTitle") = Get(RemoteData(rec), "questTitle")
                        /\ Get(res, "questNarrative")
                               = Get(RemoteData(rec), "questNarrative")
                   ELSE \A k \in DOMAIN Spread(RemoteData(rec)) \ {"isAIGenerated"} :
                            Get(res, k) = Get(RemoteData(rec), k)
            fromFallback ==
                /\ rec.source = "fallback"
                /\ IF rec.op = "transform-task"
                   THEN /\ Get(res, "questTitle").type = "string"
                        /\ \E i \in 1..5 :
                             Get(res, "questTitle").v =
                               questTitleTemplates(rec.args.taskTitle,
                                                   rec.args.category)[i]
                        /\ Get(res, "questNarrative") = JsonString(
                             fallbackGenerateQuestNarrative(rec.args.taskTitle,
                                 rec.args.category, rec.args.difficulty))
                   ELSE LET badge == fallbackGenerateAchievementBadge(
                                         rec.args.achievementType, rec.args.milestone)
                        IN /\ Get(res, "badgeName") = JsonString(badge.badgeName)
                           /\ Get(res, "badgeDescription")
                                  = JsonString(badge.badgeDescription)
                           /\ Get(res, "iconType") = JsonString(<< badge.iconType >>)
        IN
        Done(c) /\ rec.op \in {"transform-task", "achievement-badge"} =>
            /\ res.type = "object"
            /\ Flag(res) \in {JsonBool(TRUE), JsonBool(FALSE)}
            /\ Flag(res) = JsonBool(TRUE) <=> fromRemote
            /\ Flag(res) = JsonBool(FALSE) <=> fromFallback

\* a badge served from the response cache, flagged as remote
C5_Witness ==
    \E c \in Callers :
        /\ Done(c)
        /\ calls[c].op = "achievement-badge"
        /\ calls[c].source = "cache"
        /\ Flag(calls[c].result) = JsonBool(TRUE)

\* C6: in every result of transformTaskToQuest both questTitle and
\* questNarrative are strings, also when the backend answers with a success
\* status and a body with success=false or without those fields.
C6_QuestFieldsAreStrings ==
    \A c \in Callers :
        Done(c) /\ calls[c].op = "transform-task" =>
            /\ calls[c].result.type = "object"
            /\ Get(calls[c].result, "questTitle").type = "string"
            /\ Get(calls[c].result, "questNarrative").type = "string"

\* C7: a call whose cache read finds a non-expired entry returns the data
\* of the entry and has run no locator, sent no health probe and sent no
\* generation request.
C7_CacheHitStaysLocal ==
    \A c \in Callers :
        LET rec == calls[c] IN
        rec.cacheRead = "hit" =>
            /\ rec.pc = "done"
            /\ rec.source = "cache"
            /\ rec.outcome = "returned"
            /\ rec.response # Undefined
            /\ rec.result = gatewayOperation(rec.op, rec.args,
                                             Returned(rec.response), 0).result
            /\ rec.locatorRuns = 0
            /\ rec.probes = 0
            /\ rec.requests = 0

\* a transform-task call answered from the cache
C7_Witness ==
    \E c \in Callers :
        /\ calls[c].cacheRead = "hit"
        /\ calls[c].op = "transform-task"
        /\ Done(c)
        /\ Get(calls[c].result, "questTitle") = RemoteTitle

\* C8: a generateMotivationalMessage call never reads the cache and never
\* writes it; no persisted cache entry belongs to a motivational-message
\* endpoint.
C8_MotivationalBypassesCache ==
    /\ \A c \in Callers :
          calls[c].op = "motivational-message" =>
              /\ calls[c].pc # "cacheRead"
              /\ calls[c].cacheRead = "none"
              /\ calls[c].pc # "cacheWrite"
              /\ ~calls[c].wrote
    /\ \A k \in DOMAIN cache : Head(k.endpoint) # "motivational-message"

\* C9 as stated: a generateAchievementBadge("First Quest", 1) call made
\* with no remote connectivity returns the fixed table entry.
C9_OfflineBadgeIsTableEntry ==
    [][ \A c \in Callers :
          ( /\ Settles(c)
            /\ ~online
            /\ calls'[c].op = "achievement-badge"
            /\ calls'[c].args = [achievementType |-> "First Quest", milestone |-> 1] )
          => /\ Get(calls'[c].result, "badgeName")
                  = JsonString(<< "Brave", "First", "Step" >>)
             /\ Get(calls'[c].result, "badgeDescription")
                  = JsonString(<< "You", "completed", "your", "first", "quest",
                                  "and", "began", "your", "adventure!" >>)
             /\ Get(calls'[c].result, "iconType") = JsonString(<< "boot" >>)
      ]_vars

\* C9 amended: a generateAchievementBadge("First Quest", 1) call made with
\* no remote connectivity, and not answered from an unexpired cache entry,
\* returns the fixed table entry, with the provenance flag false.
C9_OfflineUncachedBadgeIsTableEntry ==
    [][ \A c \in Callers :
          ( /\ Settles(c)
            /\ ~online
            /\ calls'[c].op = "achievement-badge"
            /\ calls'[c].args = [achievementType |-> "First Quest", milestone |-> 1]
            /\ calls'[c].cacheRead # "hit" )
          => /\ calls'[c].outcome = "returned"
             /\ Get(calls'[c].result, "badgeName")
                  = JsonString(<< "Brave", "First", "Step" >>)
             /\ Get(calls'[c].result, "badgeDescription")
                  = JsonString(<< "You", "completed", "your", "first", "quest",
                                  "and", "began", "your", "adventure!" >>)
             /\ Get(calls'[c].result, "iconType") = JsonString(<< "boot" >>)
             /\ Flag(calls'[c].result) = JsonBool(FALSE)
      ]_vars

\* offline, generation enabled, the cache read missed and the badge came
\* from the fallback table
C9_Witness ==
    \E c \in Callers :
        /\ Done(c)
        /\ ~online
        /\ USE_BACKEND_GENERATION
        /\ calls[c].op = "achievement-badge"
        /\ calls[c].cacheRead \in {"absent", "expired", "error"}
        /\ calls[c].reason \in {"no backend", "network_error"}
        /\ Get(calls[c].result, "iconType") = JsonString(<< "boot" >>)

\* C10: a generateMotivationalMessage call that falls back returns a string
\* of the fixed message list, and that call was not answered from the
\* response cache.
C10_FallbackMessageFromList ==
    \A c \in Callers :
        LET rec == calls[c] IN
        Done(c) /\ rec.op = "motivational-message" /\ rec.source = "fallback" =>
            /\ rec.result.type = "string"
            /\ \E i \in 1..Len(messages) : rec.result.v = messages[i]
            /\ rec.cacheRead # "hit"
            /\ \A k \in DOMAIN cache :
                   cache[k].text = "json" => rec.result # cache[k].data

\* the fallback drew the last message of the list
C10_Witness ==
    \E c \in Callers :
        /\ Done(c)
        /\ calls[c].op = "motivational-message"
        /\ calls[c].source = "fallback"
        /\ calls[c].result = JsonString(messages[Len(messages)])

\* the position of the first occurrence of x in s
FirstIndex(s, x) == CHOOSE i \in 1..Len(s) : s[i] = x /\ \A j \in 1..(i - 1) : s[j] # x

\* C11: in every environment (configured URL, platform, dev-host hint) the
\* list getPossibleServerUrls returns has no duplicates, holds exactly the
\* pushed URLs in the order of their first push, and starts with the
\* configured URL when one is configured.
C11_CandidatesUniqueInOrder ==
    listed.computed =>
        LET urls == listed.urls
            pushed == pushedUrls(environment)
        IN /\ \A i, j \in 1..Len(urls) : i # j => urls[i] # urls[j]
           /\ Elements(urls) = Elements(pushed)
           /\ \A i, j \in 1..Len(urls) :
                i < j => FirstIndex(pushed, urls[i]) < FirstIndex(pushed, urls[j])
           /\ environment.configuredUrl # "" => urls[1] = environment.configuredUrl

\* a configured URL that the function also pushes by itself has been listed
C11_Witness ==
    /\ listed.computed
    /\ environment.configuredUrl # ""
    /\ Len(listed.urls) < Len(pushedUrls(environment))
    /\ listed.urls[1] = environment.configuredUrl

\* C12: isUrlReachable returns true only when the health request got a
\* success status and its body parsed; a network error, an abort, a
\* non-success status and a body that fails to parse each give false; and
\* the call never ends by throwing.
C12_TrueOnlyForStatusAndBody ==
    /\ probe.pc # "threw"
    /\ probe.pc = "returned" =>
        /\ probe.verdict \in {"true", "false"}
        /\ probe.verdict = "true" <=> (probe.status = "ok" /\ probe.body = "parsed")
        /\ probe.ended \in {"network error", "abort"} => probe.verdict = "false"
        /\ probe.status = "not ok" => probe.verdict = "false"
        /\ probe.body = "failed" => probe.verdict = "false"

\* a health check got a success status and a body that did not parse
C12_Witness ==
    /\ probe.pc = "returned"
    /\ probe.status = "ok"
    /\ probe.body = "failed"
    /\ probe.verdict = "false"

\* C13: every isUrlReachable call has returned its verdict once its
\* 3000 ms timer has run out: no call is still waiting (for the status or
\* for the body) later than 3000 ms after it started.
C13_VerdictWithinTimeout ==
    probe.pc \in {"fetching", "reading"} => now - probe.startedAt <= TimeoutMs

\* C14: discoverBackendUrl never raises: whatever step fails (the storage
\* read, the storage write, a health check, the connectivity check), no run
\* ends with an exception.
C14_DiscoveryNeverRaises ==
    \A k \in Runners : runs[k].pc # "threw"

\* C15: a run that read a persisted URL probes it first; when that health
\* check passes the run returns exactly that URL, having checked no
\* connectivity, listed no candidates, probed nothing else and written
\* nothing; when it fails the run goes on to the connectivity check.
C15_CachedUrlShortCircuits ==
    \A k \in Runners :
        LET r == runs[k] IN
        (r.cachedUrl # null /\ r.probed # << >>) =>
            /\ r.probed[1].url = r.cachedUrl
            /\ r.probed[1].kind = "cached"
            /\ r.probed[1].verdict =>
                /\ r.pc = "returned"
                /\ r.result = r.cachedUrl
                /\ r.netInfo = "none"
                /\ r.urls = << >>
                /\ Len(r.probed) = 1
                /\ r.wrote = null
            /\ ~r.probed[1].verdict =>
                /\ r.pc # "probeCached"
                /\ r.pc = "netInfo" \/ r.netInfo # "none"

\* a run has returned the persisted URL after one passed health check, and
\* another run has gone past a failed check of the persisted URL
C15_Witness ==
    \E k, j \in Runners :
        /\ runs[k].pc = "returned"
        /\ runs[k].cachedUrl = StaleUrl
        /\ runs[k].result = StaleUrl
        /\ Len(runs[k].probed) = 1
        /\ runs[j].cachedUrl = StaleUrl
        /\ runs[j].probed # << >>
        /\ ~runs[j].probed[1].verdict
        /\ runs[j].netInfo = "connected"

\* C16: a run that reached the connectivity check and was told the device
\* has no network returns null, has probed no candidate and has written
\* nothing to working_backend_url.
C16_OfflineSkipsProbing ==
    \A k \in Runners :
        LET r == runs[k] IN
        r.netInfo = "disconnected" =>
            /\ r.pc = "returned"
            /\ r.result = null
            /\ candidateProbes(r) = << >>
            /\ r.urls = << >>
            /\ r.wrote = null

\* an offline run has returned null while a URL stays persisted
C16_Witness ==
    \E k \in Runners :
        /\ runs[k].netInfo = "disconnected"
        /\ runs[k].pc = "returned"
        /\ runs[k].cachedUrl = StaleUrl
        /\ working_backend_url = StaleUrl

\* C17: with network present a run probes the candidates in list order,
\* one after the other, stops at the first whose health check passes and
\* returns it, and returns null only when the health check of every
\* candidate has failed.
C17_CandidatesInOrderFirstWins ==
    \A k \in Runners :
        LET r == runs[k]
            c == candidateProbes(r)
        IN r.netInfo = "connected" =>
            /\ r.urls = getPossibleServerUrls(environment)
            /\ Len(c) <= Len(r.urls)
            /\ \A i \in 1..Len(c) : c[i].url = r.urls[i]
            /\ \A i \in 1..(Len(c) - 1) : ~c[i].verdict
            /\ r.pc = "probing" => \A i \in 1..Len(c) : ~c[i].verdict
            /\ r.pc = "setItem" => c # << >> /\ c[Len(c)].verdict
            /\ r.pc = "returned" =>
                /\ c # << >>
                /\ r.result # null => c[Len(c)].verdict /\ r.result = c[Len(c)].url
                /\ r.result = null =>
                    Len(c) = Len(r.urls) /\ \A i \in 1..Len(c) : ~c[i].verdict

\* one run has returned the second candidate after the first failed, the
\* other has returned null after every candidate failed
C17_Witness ==
    \E k, j \in Runners :
        /\ runs[k].pc = "returned"
        /\ runs[k].result = getPossibleServerUrls(environment)[2]
        /\ Len(candidateProbes(runs[k])) = 2
        /\ runs[j].pc = "returned"
        /\ runs[j].netInfo = "connected"
        /\ runs[j].result = null
        /\ Len(candidateProbes(runs[j])) = Len(getPossibleServerUrls(environment))

\* a health check of run r passed for url
PassedIn(r, url) ==
    \E i \in 1..Len(r.probed) : r.probed[i].url = url /\ r.probed[i].verdict

\* C18 as stated: after any sequence of runs with working storage the
\* persisted URL is the last URL whose health check passed; every passed
\* health check is followed by a write of its URL in the same run; every
\* written URL passed a health check in the writing run; and once written
\* the key is never without a URL.
C18_WrittenOnEveryPassedCheck ==
    (~locatorLog.storageFailed /\ \A k \in Runners : AtRest(runs[k])) =>
        /\ locatorLog.lastPassed # null => working_backend_url = locatorLog.lastPassed
        /\ locatorLog.lastWriter # 0 => working_backend_url # null
        /\ \A k \in Runners :
            /\ runs[k].wrote # null => PassedIn(runs[k], runs[k].wrote)
            /\ \A i \in 1..Len(runs[k].probed) :
                runs[k].probed[i].verdict => runs[k].wrote = runs[k].probed[i].url

\* C18 as amended: after any sequence of runs with working storage the
\* persisted URL is the last URL whose health check passed; every passed
\* health check of a candidate is followed by a write of its URL in the
\* same run, while a passed re-check of the cached URL writes nothing (the
\* key holds that URL already); every written URL passed a health check in
\* the writing run; and once written the key is never without a URL.
C18_PersistedIsLastPassed ==
    (~locatorLog.storageFailed /\ \A k \in Runners : AtRest(runs[k])) =>
        /\ locatorLog.lastPassed # null => working_backend_url = locatorLog.lastPassed
        /\ locatorLog.lastWriter # 0 => working_backend_url # null
        /\ \A k \in Runners :
            /\ runs[k].wrote # null => PassedIn(runs[k], runs[k].wrote)
            /\ \A i \in 1..Len(runs[k].probed) :
                runs[k].probed[i].verdict =>
                    IF runs[k].probed[i].kind = "candidate"
                    THEN runs[k].wrote = runs[k].probed[i].url
                    ELSE runs[k].wrote = null

\* after a run wrote a candidate, a later run re-checked that URL, failed,
\* found no candidate either and left the key as it was
C18_Witness ==
    \E k, j \in Runners :
        /\ k # j
        /\ ~locatorLog.storageFailed
        /\ runs[k].pc = "returned"
        /\ runs[k].wrote # null
        /\ runs[j].pc = "returned"
        /\ runs[j].cachedUrl = runs[k].wrote
        /\ runs[j].probed # << >>
        /\ ~runs[j].probed[1].verdict
        /\ runs[j].result = null
        /\ working_backend_url = runs[k].wrote

\* C19: however two runs interleave at their awaits, each returns null or
\* a URL whose health check passed in that same run, and once a write took
\* place the persisted URL is the one the last writer wrote, a URL whose
\* health check passed in one of the two runs.
C19_RacingRunsKeepCheckedUrls ==
    /\ \A k \in Runners :
        runs[k].pc = "returned" =>
            runs[k].result = null \/ PassedIn(runs[k], runs[k].result)
    /\ locatorLog.lastWriter # 0 =>
        /\ working_backend_url = runs[locatorLog.lastWriter].wrote
        /\ \E k \in Runners : PassedIn(runs[k], working_backend_url)
    /\ locatorLog.lastWriter = 0 => working_backend_url \in PersistedAtStart

\* both runs were past the cached-URL step before either wrote; they then
\* wrote different candidates and the later write stands
C19_Witness ==
    \E k, j \in Runners :
        /\ k # j
        /\ runs[k].pc = "returned"
        /\ runs[j].pc = "returned"
        /\ runs[k].cachedUrl = StaleUrl
        /\ runs[j].cachedUrl = StaleUrl
        /\ runs[k].wrote # null
        /\ runs[j].wrote # null
        /\ runs[k].wrote # runs[j].wrote
        /\ locatorLog.lastWriter = j
        /\ working_backend_url = runs[j].wrote

\* caller c sends a generation request in this step
SendsRequest(c) == calls'[c].pc = "fetching" /\ calls[c].pc # "fetching"

\* C20 as stated: the locator runs in every gateway call that reaches the
\* backend: a call that has sent a generation request has run
\* discoverBackendUrl itself, and a call whose locator run resolved no URL
\* has sent no request and has returned the fallback.
C20_LocatorRunsInEveryCall ==
    \A c \in Callers :
        /\ calls[c].requests > 0 => calls[c].locatorRuns > 0
        /\ (Done(c) /\ calls[c].reason \in {"no backend", "discovery threw"}) =>
            /\ calls[c].requests = 0
            /\ calls[c].source = "fallback"

\* C20 as amended: a gateway call that needs the backend runs the locator
\* only when the module holds no discovered URL, and otherwise reuses the
\* URL held since the startup discovery or an earlier call without probing
\* it again; every generation request is sent while a URL returned by a
\* locator run is held, and a call whose locator run resolves no URL sends
\* no request and returns the fallback.
C20_RequestsNeedHeldOrResolvedUrl ==
    [][ \A c \in Callers :
          /\ SendsRequest(c) =>
                IF calls[c].pc = "discovering"
                THEN /\ discoveredBackendUrl' # null
                     /\ calls'[c].locatorRuns = 1
                ELSE /\ discoveredBackendUrl # null
                     /\ calls'[c].locatorRuns = 0
                     /\ calls'[c].probes = 0
          /\ (calls[c].pc = "discovering" /\ ~SendsRequest(c)
                /\ calls'[c] # calls[c]) =>
                /\ calls'[c].pc = "done"
                /\ calls'[c].requests = 0
                /\ calls'[c].source = "fallback"
                /\ calls'[c].outcome = "returned"
          /\ (calls'[c].pc = "discovering" /\ calls[c].pc # "discovering") =>
                /\ discoveredBackendUrl = null
                /\ calls'[c].locatorRuns = 1
      ]_vars

\* a call has sent its generation request to the URL held since the
\* startup discovery, without a locator run of its own
C20_Witness ==
    \E c \in Callers :
        /\ calls[c].pc = "fetching"
        /\ calls[c].locatorRuns = 0
        /\ calls[c].probes = 0
        /\ startup = [pc |-> "done", probed |-> TRUE]
        /\ discoveredBackendUrl # null

\* C21: a call whose generation request ended in a network error or a
\* non-success status, or whose response body reports success=false, has
\* written no cache entry and has returned the local fallback.
C21_OnlySuccessIsCached ==
    \A c \in Callers :
        LET rec == calls[c] IN
        (Done(c) /\ (rec.reason \in {"network_error", "not_ok"}
                     \/ Get(rec.response, "success") = JsonBool(FALSE))) =>
            /\ ~rec.wrote
            /\ rec.source = "fallback"

\* the cache key of the call of caller c
KeyOf(c) ==
    cacheKey(endpointOf(calls[c].op, calls[c].args), bodyOf(calls[c].op, calls[c].args))

\* C22: a cache read that finds no entry or an entry that does not parse,
\* or whose storage read fails, is a miss: the call goes on to the locator
\* or the generation request instead of ending there; and a successful
\* cache write replaces whatever the key held, an unparsable entry
\* included, by a well-formed entry with the fresh data.
C22_BadCacheReadIsMiss ==
    [][ \A c \in Callers :
          /\ (calls[c].pc = "cacheRead"
              /\ calls'[c].cacheRead \in {"absent", "error", "corrupt"}) =>
                /\ calls'[c].pc \in {"discovering", "fetching"}
                /\ calls'[c].outcome = "pending"
                /\ cache' = cache
          /\ (calls[c].pc = "cacheWrite" /\ calls'[c].wrote) =>
                /\ cache'[KeyOf(c)].text = "json"
                /\ cache'[KeyOf(c)].data = extractResponseData(calls[c].response)
                /\ cache'[KeyOf(c)].timestamp = calls[c].timestamp
      ]_vars

\* a call read an unparsable entry, went on to the backend and has
\* replaced the entry by the fresh response
C22_Witness ==
    \E c \in Callers :
        /\ Done(c)
        /\ calls[c].cacheRead = "corrupt"
        /\ calls[c].source = "remote"
        /\ calls[c].wrote
        /\ cache[KeyOf(c)].text = "json"
        /\ Flag(calls[c].result) = JsonBool(TRUE)

\* C23: for an achievement type that the fixed table lacks, the fallback
\* badge is named "<type> Master", its description carries the milestone
\* value, and its icon type is the one keyword matching gives for the
\* achievement type and the badge name (type keywords first, then name
\* keywords), the default icon being left for types no keyword matches.
C23_GenericBadgeIconByKeyword ==
    (badgeCall.computed /\ badgeCall.achievementType \notin DOMAIN defaultBadges) =>
        /\ badgeCall.result.badgeName = << badgeCall.achievementType, "Master" >>
        /\ \E i \in 1..Len(badgeCall.result.badgeDescription) :
             badgeCall.result.badgeDescription[i] = ToString(badgeCall.milestone)
        /\ badgeCall.result.iconType =
             determineIconType(badgeCall.achievementType,
                               badgeCall.achievementType \o " Master")

\* C24: when the cache write after a successful remote response fails, the
\* call still returns what it returns for the normalized remote data, from
\* the remote source, and for transform-task and achievement-badge with
\* provenance true; the cache is left as it was.
C24_FailedCacheWriteKeepsRemoteResult ==
    [][ \A c \in Callers :
          (calls[c].pc = "cacheWrite" /\ calls'[c].pc = "done" /\ ~calls'[c].wrote) =>
              /\ cache' = cache
              /\ calls'[c].outcome = "returned"
              /\ calls'[c].source = "remote"
              /\ calls'[c].result =
                   gatewayOperation(calls[c].op, calls[c].args,
                       Returned(extractResponseData(calls[c].response)), 0).result
              /\ calls[c].op \in {"transform-task", "achievement-badge"} =>
                   Flag(calls'[c].result) = JsonBool(TRUE)
      ]_vars

\* a transform-task call returned the remote quest although its cache
\* write failed and the key has no entry
C24_Witness ==
    \E c \in Callers :
        /\ Done(c)
        /\ calls[c].op = "transform-task"
        /\ calls[c].source = "remote"
        /\ ~calls[c].wrote
        /\ calls[c].response.type = "object"
        /\ cacheableResult(calls[c].response)
        /\ KeyOf(c) \notin DOMAIN cache
        /\ Get(calls[c].result, "questTitle") = RemoteTitle
        /\ Flag(calls[c].result) = JsonBool(TRUE)

\* C25: the module's discoveredBackendUrl, once it holds a URL, never goes
\* back to null, however the startup discovery and the discoveries started
\* by callApi while it was null interleave.
C25_DiscoveredUrlStaysSet ==
    [][ discoveredBackendUrl # null => discoveredBackendUrl' # null ]_vars


\* the completeTask call k stores its copies in this step
Stores(k) == completions[k].pc = "checking" /\ completions'[k].pc = "done"

\* the completeTask call k starts in this step
Starts(k) == completions[k].pc # "checking" /\ completions'[k] # completions[k]

\* the points the completed tasks of a list are worth
RECURSIVE CompletedPoints(_)
CompletedPoints(list) ==
    IF list = << >> THEN 0
    ELSE LET task == list[Len(list)] IN
         CompletedPoints(SubSeq(list, 1, Len(list) - 1))
         + (IF ~task.completed THEN 0
            ELSE IF task.difficulty = "mini" THEN 10
            ELSE IF task.difficulty = "boss" THEN 50
            ELSE 25)

\* the number of completed tasks of a list
CompletedCount(list) ==
    Cardinality({ i \in 1..Len(list) : list[i].completed })

\* C26: completeTask on a completed task or on an id that is not in the
\* list stores nothing and leaves tasks and userStats alone; completing an
\* incomplete task stores the stats it read plus 10 (mini), 50 (boss) or
\* 25 (any other difficulty) points and plus one completed quest; after
\* every step points is the sum over the completed tasks and
\* completedQuests is their number.
C26_PointsAreSumOverCompleted ==
    [][ /\ userStats'.points = CompletedPoints(tasks')
        /\ userStats'.completedQuests = CompletedCount(tasks')
        /\ \A k \in Runners :
            /\ ( /\ Starts(k)
                 /\ \/ \A i \in 1..Len(tasks) : tasks[i].id # completions'[k].taskId
                    \/ \E i \in 1..Len(tasks) :
                          tasks[i].id = completions'[k].taskId /\ tasks[i].completed )
               => /\ completions'[k].pc = "done"
                  /\ tasks' = tasks
                  /\ userStats' = userStats
            /\ Stores(k) =>
                 \E i \in 1..Len(tasks') :
                    LET task == tasks'[i]
                        earned == IF task.difficulty = "mini" THEN 10
                                  ELSE IF task.difficulty = "boss" THEN 50
                                  ELSE 25
                    IN /\ task.id = completions[k].taskId
                       /\ task.completed
                       /\ userStats'.points = completions[k].read.points + earned
                       /\ userStats'.completedQuests =
                              completions[k].read.completedQuests + 1
                       /\ completions[k].read = userStats =>
                              /\ userStats'.points = userStats.points + earned
                              /\ userStats'.completedQuests =
                                     userStats.completedQuests + 1
      ]_vars

\* a task of a difficulty the code does not name and a boss task are
\* completed, a call on a completed task and a call on an absent id have
\* returned, and the stats hold 75 points for 2 quests
C26_Witness ==
    /\ \E i \in 1..Len(tasks) : tasks[i].completed /\ tasks[i].difficulty = "epic"
    /\ \E i \in 1..Len(tasks) : tasks[i].completed /\ tasks[i].difficulty = "boss"
    /\ userStats.points = 75
    /\ userStats.completedQuests = 2
    /\ completions[1].pc = "done" /\ completions[1].taskId = NumTasks + 1
    /\ completions[2].pc = "done"
    /\ completions[2].checked = << >>
    /\ \E i \in 1..Len(tasks) :
          tasks[i].id = completions[2].taskId /\ tasks[i].completed


\* C27: a completion stores, for the stats it read: the streak unchanged
\* when the last completion was earlier the same day, the streak plus one
\* when it was the day before, and 1 when it was longer ago or there was
\* none.
C27_SameDayKeepsStreak ==
    [][ \A k \in Runners :
          Stores(k) =>
            LET read == completions[k].read
                last == read.lastCompletedDate
                today == userStats'.lastCompletedDate.date
            IN userStats'.currentStreak =
                 IF last = JsonNull THEN 1
                 ELSE IF last.date = today THEN read.currentStreak
                 ELSE IF last.date = today - 1 THEN read.currentStreak + 1
                 ELSE 1
      ]_vars

\* C28: the stats a completion stores hold the badge of every achievement
\* condition they meet, and hold no badge twice.
C28_StoredStatsHoldReachedBadges ==
    [][ \A k \in Runners :
          Stores(k) =>
            /\ \A n \in 1..Len(achievementBadges) :
                  achievementReached(userStats', achievementBadges[n]) =>
                      achievementBadges[n] \in Elements(userStats'.badges)
            /\ \A i, j \in 1..Len(userStats'.badges) :
                  userStats'.badges[i] = userStats'.badges[j] => i = j
      ]_vars


\* the getIBMToken call k starts in this step
TokenCallStarts(k) ==
    tokenCalls[k].pc # "requesting" /\ tokenCalls'[k] # tokenCalls[k]

\* C29: getIBMToken returns the cached token without a request exactly
\* when a token is cached and the clock is before its expiry, and requests
\* a token otherwise; an answered request caches the token with an expiry
\* 300 seconds before the lifetime the provider gave; a failed request
\* leaves the cache as it was and raises; the first getIBMToken after
\* resetTokenCache issues a request.
C29_TokenCacheDecidesRequests ==
    [][ \A k \in Runners :
          /\ TokenCallStarts(k) =>
               /\ IF tokenCache.token # null /\ clock < tokenCache.expiresAt
                  THEN /\ tokenCalls'[k].pc = "returned"
                       /\ ~tokenCalls'[k].requested
                       /\ tokenCalls'[k].result = tokenCache.token
                  ELSE /\ tokenCalls'[k].pc = "requesting"
                       /\ tokenCalls'[k].requested
               /\ tokenCache' = tokenCache
               /\ tokenLog.reset => tokenCalls'[k].requested
          /\ (tokenCalls[k].pc = "requesting" /\ tokenCalls'[k].pc = "returned") =>
               /\ tokenCache'.token = tokenCalls'[k].result
               /\ tokenCache'.token # null
               /\ tokenCache'.expiresAt =
                    tokenCalls[k].currentTime
                    + (tokenCalls'[k].expiresIn - 300) * 1000
          /\ (tokenCalls[k].pc = "requesting" /\ tokenCalls'[k].pc = "raised") =>
               tokenCache' = tokenCache
      ]_vars


\* C30: at most one addTask call is in flight; a handleCreateQuest
\* invocation that arrives while a submission runs, or after it ended and
\* before the release timer ran, returns without calling addTask; and
\* whenever a submission has ended with the lock held, the lock is
\* released later.
C30_OneSubmissionAtATime ==
    /\ [][ /\ form'.inFlight <= 1
           /\ ( /\ form'.invocations = form.invocations + 1
                /\ form.inFlight > 0 \/ form.timers # << >> )
              => /\ form'.addTaskCalls = form.addTaskCalls
                 /\ form'.inFlight = form.inFlight
                 /\ form'.ignored = form.ignored + 1
                 /\ submitLock' = submitLock
         ]_vars
    /\ (submitLock /\ form.inFlight = 0) ~> ~submitLock

\* two submissions ran one after the other, an invocation in between was
\* turned away, and the lock of the second has been released
C30_Witness ==
    /\ form.addTaskCalls = 2
    /\ form.ignored >= 1
    /\ form.inFlight = 0
    /\ form.timers = << >>
    /\ ~submitLock

====
